---- MODULE Spec2Model ----
(***************************************************************************)
(* Garderobe: an ephemeral coat-check service on top of a Redis store.     *)
(*                                                                         *)
(* The model keeps the Redis keyspace as one function (db) from keys to    *)
(* entries, and gives every Redis command the handlers use as an operator  *)
(* on that function.  The location manager (parseLocationSchema,           *)
(* initializeLocations, getNextLocation, returnLocation) and the ticket    *)
(* handlers of routes.js (issue, check-in, check-out) are translated on    *)
(* top of these commands, one action per await of a handler.               *)
(*                                                                         *)
(* Strings the code takes apart or builds (location schemas, location      *)
(* identifiers, ISO timestamps) are sequences of characters; '' and null   *)
(* are both the empty sequence, which is what every test of them in the    *)
(* code (||, if (x), !x) makes of them.  Opaque strings (slugs, tokens,    *)
(* field names) are TLA+ strings.                                          *)
(***************************************************************************)
EXTENDS Integers, Sequences, FiniteSets, Bags

VARIABLES
    db,         \* the Redis keyspace: key -> [v |-> value, exp |-> expiry]
    now,        \* the clock, in seconds
    poolSchema, \* location-manager calls: the schema the pool was built from
    takeLog,    \* location-manager calls: results of the current run of takes
    availBefore,\* location-manager calls: |available| when that run began
    lastCall,   \* location-manager calls: the last call and what it returned
    reqs,       \* HTTP workers: the request each one is serving
    lastResp,   \* HTTP workers: the last response sent
    issued,     \* HTTP workers: the bag of ticket numbers handed to guests
    creq,       \* POST /api/events: the creation request each worker is serving
    lastCreate, \* POST /api/events: the last response sent
    admitted,   \* POST /api/events: per address, requests checkRateLimit let
                \* through since the address's rate-limit key was created
    snap,       \* the pool before and after the last check-in/check-out pair
    build,      \* which of the two createEvent bodies of event-manager.js runs
    staff,      \* the last request of a staff endpoint or of the ticket page,
                \* and its response
    chal        \* the security challenges: the verifications in progress and
                \* the verdicts and rate-limit answers given so far

vars == <<db, now, poolSchema, takeLog, availBefore, lastCall, reqs, lastResp, issued,
          creq, lastCreate, admitted, snap, build, staff, chal>>

\* what the ticket handlers and the location-manager calls leave alone
AuxVars == <<creq, lastCreate, admitted, snap, build, staff, chal>>

(***************************************************************************)
(* Bounds of the model.                                                    *)
(***************************************************************************)
\* positions run over 1..MaxSpot in the schemas the model creates
MaxSpot == 2
\* largest pool of an event the HTTP handlers create
MaxEventSlots == 2
\* longest run of consecutive getNextLocation calls that is logged
MaxTakes == 4
\* tickets issued per event
MaxIssue == 2
\* event durations run over 1..MaxDuration hours
MaxDuration == 1
\* the clock advances MaxTicks times, by TickSeconds each time
TickSeconds == 3600
MaxTicks == 1
StepSeconds == 1800
MaxSteps == 3
MaxLifetime == 2
\* creation requests counted by one life of the global hourly counter
MaxCreates == 3

(***************************************************************************)
(* Program constants.                                                      *)
(***************************************************************************)
\* The four ceilings are read from the environment (process.env) when the
\* server starts; the model runs a server configured with small ceilings.
MAX_EVENTS_PER_IP_PER_HOUR == 1
MAX_TICKETS_PER_EVENT == 2
MAX_ACTIVE_EVENTS == 1
MAX_EVENTS_PER_HOUR_GLOBAL == 2
\* the lifetime of the two creation counters, in seconds
RateWindow == 3600
\* candidates createEvent draws before it gives up
MaxAttempts == 10

\* rack letters of the schemas the model creates, with String.charCodeAt
Letters == <<"A", "B">>
Slugs == {"ev1"}
Tokens == {"tokA"}

(***************************************************************************)
(* Strings.                                                                *)
(***************************************************************************)
DigitChars == <<"0", "1", "2", "3", "4", "5", "6", "7", "8", "9">>

IsDigit(c) == \E i \in 1..10 : DigitChars[i] = c

DigitVal(c) == (CHOOSE i \in 1..10 : DigitChars[i] = c) - 1

RECURSIVE NumberFrom(_, _, _)
NumberFrom(s, i, acc) ==
    IF i > Len(s) THEN acc ELSE NumberFrom(s, i + 1, acc * 10 + DigitVal(s[i]))

\* Number(str) of a string of decimal digits
Number(s) == NumberFrom(s, 1, 0)

RECURSIVE NumToString(_)
\* `${n}` of a non-negative integer
NumToString(n) ==
    IF n < 10 THEN <<DigitChars[n + 1]>>
    ELSE NumToString(n \div 10) \o <<DigitChars[(n % 10) + 1]>>

\* the letters with the character codes 65, 66 and 67
Alphabet == <<"A", "B", "C">>

\* str.charCodeAt(0) for the rack letters
CharCodeAt0(s) == 64 + (CHOOSE i \in 1..Len(Alphabet) : Alphabet[i] = s[1])

\* String.fromCharCode(code)
FromCharCode(code) == <<Alphabet[code - 64]>>

RECURSIVE SplitFrom(_, _, _, _)
SplitFrom(s, sep, i, cur) ==
    IF i > Len(s) THEN <<cur>>
    ELSE IF s[i] = sep THEN <<cur>> \o SplitFrom(s, sep, i + 1, <<>>)
    ELSE SplitFrom(s, sep, i + 1, Append(cur, s[i]))

\* str.split(sep)
Split(s, sep) == SplitFrom(s, sep, 1, <<>>)

(***************************************************************************)
(* Location schemas (event-manager.js, location-manager.js).               *)
(***************************************************************************)
\* `${rackStart}-${rackEnd}:${spotStart}-${spotEnd}`
buildLocationSchema(rackStart, rackEnd, spotStart, spotEnd) ==
    rackStart \o <<"-">> \o rackEnd \o <<":">>
        \o NumToString(spotStart) \o <<"-">> \o NumToString(spotEnd)

RECURSIVE SpotLoop(_, _, _)
\* for (spot = startSpot; spot <= endSpot; spot++) locations.push(`${rack}-${spot}`)
SpotLoop(rack, spot, endSpot) ==
    IF spot <= endSpot
    THEN <<rack \o <<"-">> \o NumToString(spot)>> \o SpotLoop(rack, spot + 1, endSpot)
    ELSE <<>>

RECURSIVE RackLoop(_, _, _, _)
\* for (charCode = startCharCode; charCode <= endCharCode; charCode++) ...
RackLoop(charCode, endCharCode, startSpot, endSpot) ==
    IF charCode <= endCharCode
    THEN SpotLoop(FromCharCode(charCode), startSpot, endSpot)
             \o RackLoop(charCode + 1, endCharCode, startSpot, endSpot)
    ELSE <<>>

\* parseLocationSchema that starts every rack at spot 1
parseLocationSchema_FromOne(schema) ==
    LET parts      == Split(schema, ":")
        racks      == Split(parts[1], "-")
        spots      == Split(parts[2], "-")
    IN  RackLoop(CharCodeAt0(racks[1]), CharCodeAt0(racks[2]), 1, Number(spots[2]))

parseLocationSchema(schema) ==
    LET parts      == Split(schema, ":")
        racksRange == parts[1]
        spotsRange == parts[2]
        racks      == Split(racksRange, "-")
        spots      == Split(spotsRange, "-")
        startSpot  == Number(spots[1])
        endSpot    == Number(spots[2])
    IN  RackLoop(CharCodeAt0(racks[1]), CharCodeAt0(racks[2]), startSpot, endSpot)

\* the schemas POST /api/events accepts, within the bounds of the model
Schemas ==
    { buildLocationSchema(<<Letters[a]>>, <<Letters[b]>>, p, q) :
        <<a, b, p, q>> \in { t \in (1..Len(Letters)) \X (1..Len(Letters))
                                      \X (1..MaxSpot) \X (1..MaxSpot) :
                                  t[1] <= t[2] /\ t[3] <= t[4] } }

Range(seq) == { seq[i] : i \in 1..Len(seq) }

(***************************************************************************)
(* Redis.  An entry with exp = 0 has no expiry; otherwise exp is the time  *)
(* at which the key goes away.  A set or hash that becomes empty is        *)
(* deleted, and a key created by a write command starts without expiry.    *)
(***************************************************************************)
Exists(d, k) == k \in DOMAIN d

Del(d, k) == [x \in (DOMAIN d) \ {k} |-> d[x]]

Put(d, k, e) == [x \in (DOMAIN d) \cup {k} |-> IF x = k THEN e ELSE d[x]]

\* TTL key
Ttl(d, k) ==
    IF ~Exists(d, k) THEN 0 - 2
    ELSE IF d[k].exp = 0 THEN 0 - 1
    ELSE d[k].exp - now

\* EXPIRE key seconds
Expire(d, k, seconds) ==
    IF ~Exists(d, k) THEN d
    ELSE IF seconds <= 0 THEN Del(d, k)
    ELSE [d EXCEPT ![k].exp = now + seconds]

\* SET key value
Set(d, k, val) == Put(d, k, [v |-> val, exp |-> 0])

\* GET key of an integer key; null is read as 0 by the callers' tests
Get(d, k) == IF Exists(d, k) THEN d[k].v ELSE 0

\* INCR key
Incr(d, k) ==
    IF Exists(d, k) THEN [d EXCEPT ![k].v = @ + 1]
    ELSE Put(d, k, [v |-> 1, exp |-> 0])

\* HGETALL key
HGetAll(d, k) == IF Exists(d, k) THEN d[k].v ELSE <<>>

\* HSET key field value [field value ...]
HSet(d, k, fields) ==
    IF Exists(d, k)
    THEN [d EXCEPT ![k].v =
              [f \in (DOMAIN @) \cup (DOMAIN fields) |->
                  IF f \in DOMAIN fields THEN fields[f] ELSE @[f]]]
    ELSE Put(d, k, [v |-> fields, exp |-> 0])

\* SMEMBERS key
SMembers(d, k) == IF Exists(d, k) THEN d[k].v ELSE {}

\* SCARD key
SCard(d, k) == Cardinality(SMembers(d, k))

\* SADD key member
SAdd(d, k, m) ==
    IF Exists(d, k) THEN [d EXCEPT ![k].v = @ \cup {m}]
    ELSE Put(d, k, [v |-> {m}, exp |-> 0])

\* SREM key member
SRem(d, k, m) ==
    IF ~Exists(d, k) THEN d
    ELSE IF d[k].v \ {m} = {} THEN Del(d, k)
    ELSE [d EXCEPT ![k].v = @ \ {m}]

(***************************************************************************)
(* Keys.                                                                   *)
(***************************************************************************)
metaKey(slug) == <<"event", slug, "meta">>
counterKey(slug) == <<"event", slug, "counter">>
activeKey(slug) == <<"event", slug, "active">>
availableKey(slug) == <<"event", slug, "available_locations">>
usedKey(slug) == <<"event", slug, "used_locations">>
ticketKey(slug, ticketId) == <<"event", slug, "ticket", ticketId>>

Available(slug) == SMembers(db, availableKey(slug))
Used(slug) == SMembers(db, usedKey(slug))

(***************************************************************************)
(* Location manager (location-manager.js).  Each function returns the new  *)
(* keyspace and the value the JavaScript function resolves to.             *)
(***************************************************************************)
RECURSIVE SAddAll(_, _, _, _)
\* for (const location of locations) multi.sAdd(availableKey, location)
SAddAll(d, k, locations, i) ==
    IF i > Len(locations) THEN d
    ELSE SAddAll(SAdd(d, k, locations[i]), k, locations, i + 1)

initializeLocations(d, slug, schema, ttlSeconds) ==
    IF Exists(d, availableKey(slug)) THEN d
    ELSE LET locations == parseLocationSchema(schema)
             d1 == SAddAll(d, availableKey(slug), locations, 1)
             d2 == Expire(d1, availableKey(slug), ttlSeconds)
         IN  Expire(d2, usedKey(slug), ttlSeconds)

\* getNextLocation with SRANDMEMBER in place of SPOP: the member stays available
getNextLocation_NoRemove(d, slug, pick) ==
    IF SMembers(d, availableKey(slug)) = {}
    THEN [db |-> d, result |-> <<>>]
    ELSE [db |-> SAdd(d, usedKey(slug), pick), result |-> pick]

\* getNextLocation without the SADD to the used set: the member is lost
getNextLocation_NoSAdd(d, slug, pick) ==
    IF SMembers(d, availableKey(slug)) = {}
    THEN [db |-> d, result |-> <<>>]
    ELSE [db |-> SRem(d, availableKey(slug), pick), result |-> pick]

\* SPOP gives any member: pick is the member it gives, when there is one
getNextLocation(d, slug, pick) ==
    IF SMembers(d, availableKey(slug)) = {}
    THEN [db |-> d, result |-> <<>>]
    ELSE [db |-> SAdd(SRem(d, availableKey(slug), pick), usedKey(slug), pick),
          result |-> pick]

SPopChoices(d, slug) ==
    IF SMembers(d, availableKey(slug)) = {} THEN {<<>>}
    ELSE SMembers(d, availableKey(slug))

\* returnLocation without the test of what SREM removed
returnLocation_Unchecked(d, slug, location) ==
    [db |-> SAdd(SRem(d, usedKey(slug), location), availableKey(slug), location),
     result |-> location \in SMembers(d, usedKey(slug))]

returnLocation(d, slug, location) ==
    IF location \in SMembers(d, usedKey(slug))
    THEN [db |-> SAdd(SRem(d, usedKey(slug), location), availableKey(slug), location),
          result |-> TRUE]
    ELSE [db |-> d, result |-> FALSE]

(***************************************************************************)
(* The location manager called directly, as its unit tests do: one slug,   *)
(* one schema, every call one atomic command (EVAL, MULTI/EXEC) on Redis.  *)
(***************************************************************************)
NoCall == [op |-> "none", arg |-> <<>>, location |-> <<>>, ok |-> FALSE]
NoResp == [kind |-> "none", ticketId |-> 0, status |-> 0]
NoTicket == [id |-> 0, token |-> "", location |-> <<>>, status |-> "", createdAt |-> <<>>,
             checkedInAt |-> <<>>, checkedOutAt |-> <<>>]
Idle == [pc |-> "idle", slug |-> "", ticketId |-> 0, ticket |-> NoTicket,
         location |-> <<>>, ttl |-> 0, returned |-> FALSE]
\* source addresses of the creation requests
Ips == {"ip1", "ip2"}
NoCreate == [pc |-> "idle", ip |-> "", count |-> 0]
NoCreateResp == [ip |-> "", status |-> 0, slug |-> ""]
NoSnap == [ticketId |-> 0, checkIn |-> 0, checkOut |-> 0,
           before |-> [available |-> {}, used |-> {}],
           after |-> [available |-> {}, used |-> {}]]

\* no request of a staff endpoint or of the ticket page yet
NoStaff == [endpoint |-> "", slug |-> "", staffToken |-> "", status |-> 0, ran |-> FALSE,
            view |-> "", token |-> "", ticketId |-> 0, providedToken |-> ""]

ChallengeIds == {"ch1"}

\* no challenge stored, no verification in progress, and nothing answered yet
NoVerify == [pc |-> "idle", challengeId |-> "", userAnswer |-> "", data |-> <<>>]
NoRate == [pc |-> "idle", ip |-> "", count |-> 0]
NoChal == [vreq |-> [w \in {"w1", "w2"} |-> NoVerify],
           stored |-> [c \in ChallengeIds |-> FALSE],
           valid |-> [c \in ChallengeIds |-> 0],
           failed |-> [c \in ChallengeIds |-> FALSE],
           rreq |-> [w \in {"w1", "w2"} |-> NoRate],
           allowed |-> [ip \in {"ip1", "ip2"} |-> 0],
           blocked |-> [ip \in {"ip1", "ip2"} |-> 0],
           last |-> [valid |-> FALSE, error |-> ""]]

Workers == {"w1", "w2"}

Init ==
    /\ db = <<>>
    /\ now = 0
    /\ poolSchema = <<>>
    /\ takeLog = <<>>
    /\ availBefore = 0
    /\ lastCall = NoCall
    /\ reqs = [w \in Workers |-> Idle]
    /\ lastResp = NoResp
    /\ issued = EmptyBag
    /\ creq = [w \in Workers |-> NoCreate]
    /\ lastCreate = NoCreateResp
    /\ admitted = [ip \in Ips |-> 0]
    /\ snap = NoSnap
    /\ build = "marker"
    /\ staff = NoStaff
    /\ chal = NoChal

TheSlug == CHOOSE s \in Slugs : TRUE

\* some location identifiers no schema of the model expands to
StrayLocations == {<<"Z", "-", "9">>}

PoolLocations == IF poolSchema = <<>> THEN {} ELSE Range(parseLocationSchema(poolSchema))

PoolInitialize(schema, hours) ==
    /\ poolSchema \in {<<>>, schema}
    /\ db' = initializeLocations(db, TheSlug, schema, hours * 60 * 60)
    /\ poolSchema' = schema
    /\ takeLog' = <<>>
    /\ availBefore' = SCard(db', availableKey(TheSlug))
    /\ lastCall' = [op |-> "init", arg |-> schema, location |-> <<>>, ok |-> TRUE]
    /\ UNCHANGED <<now, reqs, lastResp, issued, AuxVars>>

PoolFirstInitialize(schema, hours) ==
    /\ poolSchema = <<>>
    /\ PoolInitialize(schema, hours)

PoolTake(pick) ==
    /\ poolSchema # <<>>
    /\ Len(takeLog) < MaxTakes
    /\ pick \in SPopChoices(db, TheSlug)
    /\ LET r == getNextLocation(db, TheSlug, pick)
       IN  /\ db' = r.db
           /\ takeLog' = Append(takeLog, r.result)
           /\ lastCall' = [op |-> "take", arg |-> <<>>, location |-> r.result,
                           ok |-> r.result # <<>>]
    /\ UNCHANGED <<now, poolSchema, availBefore, reqs, lastResp, issued, AuxVars>>

PoolReturn(location) ==
    /\ poolSchema # <<>>
    /\ LET r == returnLocation(db, TheSlug, location)
       IN  /\ db' = r.db
           /\ lastCall' = [op |-> "return", arg |-> location, location |-> <<>>,
                           ok |-> r.result]
    /\ takeLog' = <<>>
    /\ availBefore' = SCard(db', availableKey(TheSlug))
    /\ UNCHANGED <<now, poolSchema, reqs, lastResp, issued, AuxVars>>

Hours == 1..MaxDuration

PoolNext ==
    \/ \E schema \in Schemas, hours \in Hours : PoolFirstInitialize(schema, hours)
    \/ \E pick \in SPopChoices(db, TheSlug) : PoolTake(pick)
    \/ \E location \in PoolLocations \cup StrayLocations : PoolReturn(location)

\* the pool is initialized once, then taken from and returned to
SpecPool == Init /\ [][PoolNext]_vars

PoolReinitNext ==
    \/ \E schema \in Schemas, hours \in Hours : PoolInitialize(schema, hours)
    \/ \E pick \in SPopChoices(db, TheSlug) : PoolTake(pick)
    \/ \E location \in PoolLocations \cup StrayLocations : PoolReturn(location)

\* as SpecPool, and initializeLocations may be called again at any time
SpecPoolReinit == Init /\ [][PoolReinitNext]_vars

(***************************************************************************)
(* Claims about the location manager.                                      *)
(***************************************************************************)
Min(a, b) == IF a < b THEN a ELSE b

TakeHits == { i \in 1..Len(takeLog) : takeLog[i] # <<>> }

\* C1: N getNextLocation calls run against a pool with M available slots, in
\* any order of their EVALs, hand out exactly min(N, M) slots, pairwise
\* distinct, and the other N - min(N, M) calls return null.
C1_AtomicTake ==
    /\ Cardinality(TakeHits) = Min(Len(takeLog), availBefore)
    /\ \A i, j \in TakeHits : i # j => takeLog[i] # takeLog[j]
    /\ \A i \in TakeHits : \A j \in (1..Len(takeLog)) \ TakeHits : i < j

\* C1 witness: three calls against two available slots, the third got null
C1_Witness ==
    /\ availBefore = 2
    /\ Len(takeLog) = 3
    /\ takeLog[3] = <<>>
    /\ Cardinality(TakeHits) = 2

\* C3: once the pool is initialized, after any sequence of getNextLocation and
\* returnLocation calls |available| + |occupied| is the number of slots the
\* schema expands to.
C3_PoolConservation ==
    poolSchema # <<>> =>
        Cardinality(Available(TheSlug)) + Cardinality(Used(TheSlug))
            = Len(parseLocationSchema(poolSchema))

\* C3 witness: a slot came back while others are held and others are free
C3_Witness ==
    /\ lastCall.op = "return"
    /\ lastCall.ok
    /\ Cardinality(Used(TheSlug)) >= 1
    /\ Cardinality(Available(TheSlug)) >= 2

\* C4: once the pool is initialized, after any sequence of initializeLocations,
\* getNextLocation and returnLocation calls every slot of the expansion is in
\* exactly one of the available set and the occupied set.
C4_ExactlyOneSet ==
    \A location \in PoolLocations :
        (location \in Available(TheSlug)) # (location \in Used(TheSlug))

\* C10: returnLocation for an identifier that is not in the occupied set
\* returns false and leaves the available and the occupied set as they were.
C10_ReturnNotOccupied ==
    [][\A location \in PoolLocations \cup StrayLocations :
          (PoolReturn(location) /\ location \notin Used(TheSlug)) =>
              /\ lastCall'.ok = FALSE
              /\ SMembers(db', availableKey(TheSlug)) = Available(TheSlug)
              /\ SMembers(db', usedKey(TheSlug)) = Used(TheSlug)]_vars

\* C10 witness: a second return of a slot, and of an unknown identifier, failed
\* while other slots are held
C10_Witness ==
    /\ lastCall.op = "return"
    /\ ~lastCall.ok
    /\ lastCall.arg \in PoolLocations
    /\ lastCall.arg \in Available(TheSlug)
    /\ Used(TheSlug) # {}

(***************************************************************************)
(* Events (event-manager.js) and tickets (routes.js).                      *)
(***************************************************************************)
IsNull(x) == DOMAIN x = {}

Field(data, f) == IF f \in DOMAIN data THEN data[f] ELSE <<>>

\* new Date(t).toISOString(): the string that stands for the time t
ISOString(t) == <<t>>

StaffTokens == {"staffA"}

createEvent(d, slug, staffToken, eventData) ==
    LET ttlSeconds == eventData.durationHours * 60 * 60
        d1 == HSet(d, metaKey(slug),
                   [name |-> eventData.eventName,
                    locationSchema |-> eventData.locationSchema,
                    staffToken |-> staffToken,
                    createdAt |-> ISOString(now),
                    expiresAt |-> ISOString(now + eventData.durationHours * 60 * 60),
                    durationHours |-> eventData.durationHours])
        d2 == Expire(d1, metaKey(slug), ttlSeconds)
        d3 == Set(d2, counterKey(slug), 0)
        d4 == Expire(d3, counterKey(slug), ttlSeconds)
        d5 == Set(d4, activeKey(slug), "1")
        d6 == Expire(d5, activeKey(slug), ttlSeconds)
    IN  [db |-> d6,
         event |-> [slug |-> slug, locationSchema |-> eventData.locationSchema,
                    staffToken |-> staffToken, ttlSeconds |-> ttlSeconds]]

\* getEvent that builds its result without testing that the metadata exist
getEvent_NoTest(d, slug) ==
    LET meta == HGetAll(d, metaKey(slug))
    IN  [slug |-> slug, name |-> Field(meta, "name"),
         locationSchema |-> Field(meta, "locationSchema"),
         staffToken |-> Field(meta, "staffToken"),
         createdAt |-> Field(meta, "createdAt"), expiresAt |-> Field(meta, "expiresAt"),
         durationHours |-> Field(meta, "durationHours")]

getEvent(d, slug) ==
    IF ~Exists(d, metaKey(slug)) THEN <<>>
    ELSE LET meta == HGetAll(d, metaKey(slug))
         IN  IF IsNull(meta) THEN <<>>
             ELSE [slug |-> slug, name |-> Field(meta, "name"),
                   locationSchema |-> meta.locationSchema,
                   staffToken |-> meta.staffToken,
                   createdAt |-> meta.createdAt, expiresAt |-> meta.expiresAt,
                   durationHours |-> meta.durationHours]

getTicket(d, slug, ticketId) ==
    LET data == HGetAll(d, ticketKey(slug, ticketId))
    IN  IF IsNull(data) THEN <<>>
        ELSE [id |-> ticketId,
              token |-> data.token,
              location |-> Field(data, "location"),
              status |-> IF Field(data, "checkedOutAt") # <<>> THEN "checked_out"
                         ELSE IF Field(data, "location") # <<>> THEN "checked_in"
                         ELSE "new",
              createdAt |-> data.createdAt,
              checkedInAt |-> Field(data, "checkedInAt"),
              checkedOutAt |-> Field(data, "checkedOutAt")]

(***************************************************************************)
(* The HTTP handlers.  A worker serves one request at a time; each action  *)
(* is one await of the handler, with the synchronous code up to the next   *)
(* await.  A request for an event starts only once the event's creation    *)
(* has been answered: the slug is in that answer and nowhere else.         *)
(***************************************************************************)
\* res.status(status) of the handler `kind`: the request is over
Respond(w, kind, ticketId, status) ==
    /\ reqs' = [reqs EXCEPT ![w] = Idle]
    /\ lastResp' = [kind |-> kind, ticketId |-> ticketId, status |-> status]

Goto(w, pc) == reqs' = [reqs EXCEPT ![w].pc = pc]

PoolVars == <<poolSchema, takeLog, availBefore, lastCall, AuxVars>>

\* POST /api/events, from its validation on: buildLocationSchema, createEvent,
\* then initializeLocations; generateEventSlug draws a slug no event has
CreateAndInitialize(slug, staffToken, rackStart, rackEnd, spotStartNum, spotEndNum, hours) ==
    LET totalLocations == (CharCodeAt0(rackEnd) - CharCodeAt0(rackStart) + 1)
                              * (spotEndNum - spotStartNum + 1)
    IN  /\ ~Exists(db, metaKey(slug))
        /\ CharCodeAt0(rackStart) <= CharCodeAt0(rackEnd)
        /\ ~(spotStartNum > spotEndNum \/ spotStartNum < 1)
        /\ ~(hours < 1 \/ hours > 48)
        /\ totalLocations <= 10000
        /\ totalLocations <= MaxEventSlots
        /\ LET locationSchema == buildLocationSchema(rackStart, rackEnd,
                                                     spotStartNum, spotEndNum)
               c == createEvent(db, slug, staffToken,
                                [eventName |-> <<>>, locationSchema |-> locationSchema,
                                 durationHours |-> hours])
           IN  db' = initializeLocations(c.db, c.event.slug, c.event.locationSchema,
                                         c.event.ttlSeconds)
        /\ UNCHANGED <<now, reqs, lastResp, issued, PoolVars>>

\* GET /e/:slug/new ----------------------------------------------------------
IssuesAhead == Cardinality({w \in Workers : reqs[w].pc \in {"is_get", "is_incr"}})

\* the handler's first step: getEvent
IssueBegin(w, slug) ==
    /\ reqs[w].pc = "idle"
    /\ IF IsNull(getEvent(db, slug))
       THEN Respond(w, "issue", 0, 404)
       ELSE /\ reqs' = [reqs EXCEPT ![w] = [Idle EXCEPT !.pc = "is_get", !.slug = slug]]
            /\ UNCHANGED lastResp
    /\ UNCHANGED <<db, now, issued, PoolVars>>

\* the first step, for at most MaxIssue tickets
IssueGetEvent(w, slug) ==
    /\ Get(db, counterKey(slug)) + IssuesAhead < MaxIssue
    /\ IssueBegin(w, slug)

IssueGetCounter(w) ==
    /\ reqs[w].pc = "is_get"
    /\ LET currentCount == Get(db, counterKey(reqs[w].slug))
       IN  IF currentCount # 0 /\ currentCount >= MAX_TICKETS_PER_EVENT
           THEN Respond(w, "issue", 0, 503)
           ELSE Goto(w, "is_incr") /\ UNCHANGED lastResp
    /\ UNCHANGED <<db, now, issued, PoolVars>>

\* the ticket number computed from a GET, with no INCR
IssueIncr_NoWrite(w) ==
    /\ reqs[w].pc = "is_incr"
    /\ reqs' = [reqs EXCEPT ![w].pc = "is_ttl",
                            ![w].ticketId = Get(db, counterKey(reqs[w].slug)) + 1]
    /\ UNCHANGED <<db, now, lastResp, issued, PoolVars>>

IssueIncr(w) ==
    /\ reqs[w].pc = "is_incr"
    /\ db' = Incr(db, counterKey(reqs[w].slug))
    /\ reqs' = [reqs EXCEPT ![w].pc = "is_ttl",
                            ![w].ticketId = Get(db', counterKey(reqs[w].slug))]
    /\ UNCHANGED <<now, lastResp, issued, PoolVars>>

IssueTtl(w) ==
    /\ reqs[w].pc = "is_ttl"
    /\ LET ttl == Ttl(db, metaKey(reqs[w].slug))
       IN  reqs' = [reqs EXCEPT ![w].ttl = ttl,
                                ![w].pc = IF ttl > 0 THEN "is_expire" ELSE "is_hset"]
    /\ UNCHANGED <<db, now, lastResp, issued, PoolVars>>

IssueExpireCounter(w) ==
    /\ reqs[w].pc = "is_expire"
    /\ db' = Expire(db, counterKey(reqs[w].slug), reqs[w].ttl)
    /\ Goto(w, "is_hset")
    /\ UNCHANGED <<now, lastResp, issued, PoolVars>>

IssueHSet(w, token) ==
    /\ reqs[w].pc = "is_hset"
    /\ db' = HSet(db, ticketKey(reqs[w].slug, reqs[w].ticketId),
                  [token |-> token, createdAt |-> ISOString(now)])
    /\ Goto(w, "is_expireTicket")
    /\ UNCHANGED <<now, lastResp, issued, PoolVars>>

IssueExpireTicket(w) ==
    /\ reqs[w].pc = "is_expireTicket"
    /\ db' = Expire(db, ticketKey(reqs[w].slug, reqs[w].ticketId), reqs[w].ttl)
    /\ issued' = issued (+) SetToBag({reqs[w].ticketId})
    /\ Respond(w, "issue", reqs[w].ticketId, 302)
    /\ UNCHANGED <<now, PoolVars>>

\* POST /e/:slug/api/check-in ------------------------------------------------
CheckInGetEvent(w, slug, ticketId) ==
    /\ reqs[w].pc = "idle"
    /\ IF IsNull(getEvent(db, slug))
       THEN Respond(w, "check-in", ticketId, 404)
       ELSE /\ reqs' = [reqs EXCEPT ![w] = [Idle EXCEPT !.pc = "ci_getTicket",
                                               !.slug = slug, !.ticketId = ticketId]]
            /\ UNCHANGED lastResp
    /\ UNCHANGED <<db, now, issued, PoolVars>>

\* check-in without the test of ticket.location
CheckInGetTicket_NoGuard(w) ==
    /\ reqs[w].pc = "ci_getTicket"
    /\ LET ticket == getTicket(db, reqs[w].slug, reqs[w].ticketId)
       IN  IF IsNull(ticket)
           THEN Respond(w, "check-in", reqs[w].ticketId, 404)
           ELSE /\ reqs' = [reqs EXCEPT ![w].pc = "ci_take", ![w].ticket = ticket]
                /\ UNCHANGED lastResp
    /\ UNCHANGED <<db, now, issued, PoolVars>>

CheckInGetTicket(w) ==
    /\ reqs[w].pc = "ci_getTicket"
    /\ LET ticket == getTicket(db, reqs[w].slug, reqs[w].ticketId)
       IN  IF IsNull(ticket)
           THEN Respond(w, "check-in", reqs[w].ticketId, 404)
           ELSE IF ticket.location # <<>>
           THEN Respond(w, "check-in", reqs[w].ticketId, 400)
           ELSE /\ reqs' = [reqs EXCEPT ![w].pc = "ci_take", ![w].ticket = ticket]
                /\ UNCHANGED lastResp
    /\ UNCHANGED <<db, now, issued, PoolVars>>

\* check-in without the test of what getNextLocation returned
CheckInTake_NoFullTest(w, pick) ==
    /\ reqs[w].pc = "ci_take"
    /\ pick \in SPopChoices(db, reqs[w].slug)
    /\ LET r == getNextLocation(db, reqs[w].slug, pick)
       IN  /\ db' = r.db
           /\ reqs' = [reqs EXCEPT ![w].pc = "ci_ttl", ![w].location = r.result]
           /\ UNCHANGED lastResp
    /\ UNCHANGED <<now, issued, PoolVars>>

CheckInTake(w, pick) ==
    /\ reqs[w].pc = "ci_take"
    /\ pick \in SPopChoices(db, reqs[w].slug)
    /\ LET r == getNextLocation(db, reqs[w].slug, pick)
       IN  /\ db' = r.db
           /\ IF r.result = <<>>
              THEN Respond(w, "check-in", reqs[w].ticketId, 503)
              ELSE /\ reqs' = [reqs EXCEPT ![w].pc = "ci_ttl", ![w].location = r.result]
                   /\ UNCHANGED lastResp
    /\ UNCHANGED <<now, issued, PoolVars>>

CheckInTtl(w) ==
    /\ reqs[w].pc = "ci_ttl"
    /\ reqs' = [reqs EXCEPT ![w].ttl = Ttl(db, metaKey(reqs[w].slug)),
                            ![w].pc = "ci_hset"]
    /\ UNCHANGED <<db, now, lastResp, issued, PoolVars>>

CheckInHSet(w) ==
    /\ reqs[w].pc = "ci_hset"
    /\ db' = HSet(db, ticketKey(reqs[w].slug, reqs[w].ticketId),
                  [token |-> reqs[w].ticket.token,
                   location |-> reqs[w].location,
                   createdAt |-> reqs[w].ticket.createdAt,
                   checkedInAt |-> ISOString(now)])
    /\ Goto(w, "ci_expire")
    /\ UNCHANGED <<now, lastResp, issued, PoolVars>>

CheckInExpire(w) ==
    /\ reqs[w].pc = "ci_expire"
    /\ db' = Expire(db, ticketKey(reqs[w].slug, reqs[w].ticketId), reqs[w].ttl)
    /\ Respond(w, "check-in", reqs[w].ticketId, 200)
    /\ UNCHANGED <<now, issued, PoolVars>>

\* POST /e/:slug/api/check-out -----------------------------------------------
CheckOutGetTicket(w, slug, ticketId) ==
    /\ reqs[w].pc = "idle"
    /\ LET ticket == getTicket(db, slug, ticketId)
       IN  IF IsNull(ticket)
           THEN Respond(w, "check-out", ticketId, 404)
           ELSE IF ticket.location = <<>>
           THEN Respond(w, "check-out", ticketId, 400)
           ELSE /\ reqs' = [reqs EXCEPT ![w] =
                               [Idle EXCEPT !.pc = "co_ttl", !.slug = slug,
                                            !.ticketId = ticketId, !.ticket = ticket,
                                            !.location = ticket.location]]
                /\ UNCHANGED lastResp
    /\ UNCHANGED <<db, now, issued, PoolVars>>

CheckOutTtl(w) ==
    /\ reqs[w].pc = "co_ttl"
    /\ reqs' = [reqs EXCEPT ![w].ttl = Ttl(db, metaKey(reqs[w].slug)),
                            ![w].pc = "co_return"]
    /\ UNCHANGED <<db, now, lastResp, issued, PoolVars>>

CheckOutReturn(w) ==
    /\ reqs[w].pc = "co_return"
    /\ LET r == returnLocation(db, reqs[w].slug, reqs[w].location)
       IN  /\ db' = r.db
           /\ reqs' = [reqs EXCEPT ![w].pc = "co_hset", ![w].returned = r.result]
    /\ UNCHANGED <<now, lastResp, issued, PoolVars>>

\* check-out that records the release and leaves the location in the record
CheckOutHSet_KeepsLocation(w) ==
    /\ reqs[w].pc = "co_hset"
    /\ db' = HSet(db, ticketKey(reqs[w].slug, reqs[w].ticketId),
                  [token |-> reqs[w].ticket.token,
                   createdAt |-> reqs[w].ticket.createdAt,
                   checkedInAt |-> reqs[w].ticket.checkedInAt,
                   checkedOutAt |-> ISOString(now)])
    /\ Goto(w, "co_expire")
    /\ UNCHANGED <<now, lastResp, issued, PoolVars>>

CheckOutHSet(w) ==
    /\ reqs[w].pc = "co_hset"
    /\ db' = HSet(db, ticketKey(reqs[w].slug, reqs[w].ticketId),
                  [token |-> reqs[w].ticket.token,
                   location |-> <<>>,
                   createdAt |-> reqs[w].ticket.createdAt,
                   checkedInAt |-> reqs[w].ticket.checkedInAt,
                   checkedOutAt |-> ISOString(now)])
    /\ Goto(w, "co_expire")
    /\ UNCHANGED <<now, lastResp, issued, PoolVars>>

CheckOutExpire(w) ==
    /\ reqs[w].pc = "co_expire"
    /\ db' = Expire(db, ticketKey(reqs[w].slug, reqs[w].ticketId), reqs[w].ttl)
    /\ Respond(w, "check-out", reqs[w].ticketId, 200)
    /\ UNCHANGED <<now, issued, PoolVars>>

\* ticket numbers a request names
TicketIds == 1..MaxIssue

Create ==
    \E slug \in Slugs, staffToken \in StaffTokens, rackEnd \in Range(Letters),
       spotEndNum \in 1..MaxSpot, hours \in Hours :
        CreateAndInitialize(slug, staffToken, <<Letters[1]>>, <<rackEnd>>, 1, spotEndNum, hours)

Handle(w) ==
    \/ \E slug \in Slugs : IssueGetEvent(w, slug)
    \/ IssueGetCounter(w)
    \/ IssueIncr(w)
    \/ IssueTtl(w)
    \/ IssueExpireCounter(w)
    \/ \E token \in Tokens : IssueHSet(w, token)
    \/ IssueExpireTicket(w)
    \/ \E slug \in Slugs, ticketId \in TicketIds : CheckInGetEvent(w, slug, ticketId)
    \/ CheckInGetTicket(w)
    \/ \E pick \in SPopChoices(db, reqs[w].slug) : CheckInTake(w, pick)
    \/ CheckInTtl(w)
    \/ CheckInHSet(w)
    \/ CheckInExpire(w)
    \/ \E slug \in Slugs, ticketId \in TicketIds : CheckOutGetTicket(w, slug, ticketId)
    \/ CheckOutTtl(w)
    \/ CheckOutReturn(w)
    \/ CheckOutHSet(w)
    \/ CheckOutExpire(w)

Next == Create \/ \E w \in Workers : Handle(w)

\* the handlers under concurrent requests
Spec == Init /\ [][Next]_vars

SeqNext == Create \/ Handle("w1")

\* the handlers with one request at a time
SpecSeq == Init /\ [][SeqNext]_vars

(***************************************************************************)
(* Claims about the ticket handlers.                                       *)
(***************************************************************************)
\* the stored record of ticket t, as getTicket reads it
Ticket(d, t) == getTicket(d, TheSlug, t)

TicketState(d, t) == IF IsNull(Ticket(d, t)) THEN "absent" ELSE Ticket(d, t).status

HeldLocation(d, t) == IF IsNull(Ticket(d, t)) THEN <<>> ELSE Ticket(d, t).location

Resp(kind, ticketId, status) == [kind |-> kind, ticketId |-> ticketId, status |-> status]

\* C2: under any interleaving of check-in and check-out requests no slot is
\* recorded as the held slot of two different tickets at the same time.
\* It is stated for the states where every request has been answered, so
\* that a record a check-out is still about to clear does not count.
Quiescent == \A w \in Workers : reqs[w].pc = "idle"

C2_NoSharedSlot ==
    Quiescent =>
        \A t1, t2 \in TicketIds :
            (t1 # t2 /\ HeldLocation(db, t1) # <<>>) =>
                HeldLocation(db, t1) # HeldLocation(db, t2)

\* C5: a ticket moves only NEW -> ASSIGNED -> RELEASED, and once it is released
\* no request changes its state or gives it a slot again.
C5_TicketStateMachine ==
    [][\A t \in TicketIds :
          /\ TicketState(db, t) = "new" =>
                 TicketState(db', t) \in {"new", "checked_in"}
          /\ TicketState(db, t) = "checked_in" =>
                 TicketState(db', t) \in {"checked_in", "checked_out"}
          /\ TicketState(db, t) = "checked_out" =>
                 /\ TicketState(db', t) = "checked_out"
                 /\ HeldLocation(db', t) = <<>>]_vars

\* C6: a check-in of a ticket that holds a slot is answered 400 'Ticket already
\* checked in' and changes nothing in the store; so a check-in right after a
\* successful check-in of the same ticket is answered 400 and changes nothing.
C6_DoubleCheckIn ==
    [][\A w \in Workers :
          CheckInGetTicket(w) =>
              LET t == reqs[w].ticketId
              IN  (HeldLocation(db, t) # <<>> \/ lastResp = Resp("check-in", t, 200)) =>
                      /\ lastResp' = Resp("check-in", t, 400)
                      /\ db' = db]_vars

\* C6 witness: the second check-in was refused and the ticket holds its slot
C6_Witness ==
    \E t \in TicketIds :
        /\ lastResp = Resp("check-in", t, 400)
        /\ TicketState(db, t) = "checked_in"
        /\ HeldLocation(db, t) \in Used(TheSlug)

\* C7: a check-out of a ticket that holds no slot (NEW or RELEASED) is answered
\* 400 'Ticket not checked in' and changes nothing in the store; so a check-out
\* right after a successful check-out of the same ticket is answered 400.
C7_CheckOutWithoutSlot ==
    [][\A w \in Workers, t \in TicketIds :
          (/\ CheckOutGetTicket(w, TheSlug, t)
           /\ \/ TicketState(db, t) # "absent" /\ HeldLocation(db, t) = <<>>
              \/ lastResp = Resp("check-out", t, 200)) =>
              /\ lastResp' = Resp("check-out", t, 400)
              /\ db' = db]_vars

\* C7 witness: the second check-out of a released ticket was refused
C7_Witness ==
    \E t \in TicketIds :
        /\ lastResp = Resp("check-out", t, 400)
        /\ TicketState(db, t) = "checked_out"

\* the ticket numbers INCR has given to requests that have not answered yet
InFlightNumbers ==
    { w \in Workers : reqs[w].pc \in {"is_ttl", "is_expire", "is_hset", "is_expireTicket"} }

\* C8: the ticket numbers given out for one event, by sequential or concurrent
\* requests, are pairwise distinct and are exactly 1..N.
C8_TicketNumbers ==
    LET N == BagCardinality(issued) + Cardinality(InFlightNumbers)
    IN  /\ \A n \in BagToSet(issued) : CopiesIn(n, issued) = 1
        /\ \A w \in InFlightNumbers : ~BagIn(reqs[w].ticketId, issued)
        /\ \A v, w \in InFlightNumbers : v # w => reqs[v].ticketId # reqs[w].ticketId
        /\ BagToSet(issued) \cup { reqs[w].ticketId : w \in InFlightNumbers } = 1..N
        /\ InFlightNumbers = {} => BagToSet(issued) = 1..BagCardinality(issued)

\* C8 witness: two concurrent requests, the second number was answered first
C8_Witness ==
    /\ issued = SetToBag({2})
    /\ \E w \in Workers : reqs[w].pc = "is_expireTicket" /\ reqs[w].ticketId = 1

\* C9: with the available set empty, getNextLocation returns null and changes
\* neither set, and the check-in is answered 503 'Wardrobe full' with the
\* ticket record as it was.
C9_WardrobeFull ==
    [][\A w \in Workers :
          (reqs[w].pc = "ci_take" /\ Available(reqs[w].slug) = {}
               /\ \E pick \in SPopChoices(db, reqs[w].slug) : CheckInTake(w, pick)) =>
              /\ lastResp' = Resp("check-in", reqs[w].ticketId, 503)
              /\ reqs'[w] = Idle
              /\ db' = db]_vars

\* C9 witness: every slot is held, and the check-in of a new ticket got 503
C9_Witness ==
    \E t \in TicketIds :
        /\ lastResp = Resp("check-in", t, 503)
        /\ TicketState(db, t) = "new"
        /\ Available(TheSlug) = {}
        /\ Used(TheSlug) # {}

(***************************************************************************)
(* The check-in and check-out handlers run from request to response with   *)
(* no other command in between, and the pool statistics.                   *)
(***************************************************************************)
saveTicket(d, slug, ticketId, data, ttlSeconds) ==
    Expire(HSet(d, ticketKey(slug, ticketId), data), ticketKey(slug, ticketId), ttlSeconds)

\* POST /e/:slug/api/check-in; pick is the member SPOP gives
checkIn(d, slug, ticketId, pick) ==
    IF IsNull(getEvent(d, slug)) THEN [db |-> d, status |-> 404]
    ELSE LET ticket == getTicket(d, slug, ticketId)
         IN  IF IsNull(ticket) THEN [db |-> d, status |-> 404]
             ELSE IF ticket.location # <<>> THEN [db |-> d, status |-> 400]
             ELSE LET r == getNextLocation(d, slug, pick)
                  IN  IF r.result = <<>> THEN [db |-> r.db, status |-> 503]
                      ELSE [db |-> saveTicket(r.db, slug, ticketId,
                                       [token |-> ticket.token,
                                        location |-> r.result,
                                        createdAt |-> ticket.createdAt,
                                        checkedInAt |-> ISOString(now)],
                                       Ttl(r.db, metaKey(slug))),
                            status |-> 200]

\* check-out that clears the ticket and does not call returnLocation
checkOut_NoReturn(d, slug, ticketId) ==
    LET ticket == getTicket(d, slug, ticketId)
    IN  IF IsNull(ticket) THEN [db |-> d, status |-> 404]
        ELSE IF ticket.location = <<>> THEN [db |-> d, status |-> 400]
        ELSE [db |-> saveTicket(d, slug, ticketId,
                         [token |-> ticket.token,
                          location |-> <<>>,
                          createdAt |-> ticket.createdAt,
                          checkedInAt |-> ticket.checkedInAt,
                          checkedOutAt |-> ISOString(now)],
                         Ttl(d, metaKey(slug))),
              status |-> 200]

\* POST /e/:slug/api/check-out
checkOut(d, slug, ticketId) ==
    LET ticket == getTicket(d, slug, ticketId)
    IN  IF IsNull(ticket) THEN [db |-> d, status |-> 404]
        ELSE IF ticket.location = <<>> THEN [db |-> d, status |-> 400]
        ELSE LET ttl == Ttl(d, metaKey(slug))
                 r == returnLocation(d, slug, ticket.location)
             IN  [db |-> saveTicket(r.db, slug, ticketId,
                             [token |-> ticket.token,
                              location |-> <<>>,
                              createdAt |-> ticket.createdAt,
                              checkedInAt |-> ticket.checkedInAt,
                              checkedOutAt |-> ISOString(now)],
                             ttl),
                  status |-> 200]

\* percentFull is (used / total * 100).toFixed(1), kept in tenths of a percent
getCapacityStats(d, slug) ==
    LET available == SCard(d, availableKey(slug))
        used == SCard(d, usedKey(slug))
    IN  [available |-> available,
         used |-> used,
         total |-> available + used,
         percentFull |-> IF available + used > 0
                         THEN (2000 * used + (available + used)) \div (2 * (available + used))
                         ELSE 0]

PoolSets(d, slug) ==
    [available |-> SMembers(d, availableKey(slug)), used |-> SMembers(d, usedKey(slug))]

\* a staff member checks a ticket in and, on success, checks it out at once
AssignThenRelease(ticketId, pick) ==
    /\ reqs["w1"].pc = "idle"
    /\ pick \in SPopChoices(db, TheSlug)
    /\ LET a == checkIn(db, TheSlug, ticketId, pick)
           b == checkOut(a.db, TheSlug, ticketId)
       IN  /\ a.status = 200
           /\ db' = b.db
           /\ lastResp' = [kind |-> "check-out", ticketId |-> ticketId, status |-> b.status]
           /\ snap' = [ticketId |-> ticketId, checkIn |-> a.status, checkOut |-> b.status,
                       before |-> PoolSets(db, TheSlug), after |-> PoolSets(b.db, TheSlug)]
    /\ UNCHANGED <<now, reqs, issued, poolSchema, takeLog, availBefore, lastCall,
                   creq, lastCreate, admitted, build, staff, chal>>

RoundNext ==
    \/ Create
    \/ Handle("w1")
    \/ \E ticketId \in TicketIds : \E pick \in SPopChoices(db, TheSlug) :
           AssignThenRelease(ticketId, pick)

\* one request at a time, and check-in/check-out pairs with nothing in between
SpecRound == Init /\ [][RoundNext]_vars

\* C11: a successful check-in of a ticket followed at once by the check-out of
\* the same ticket succeeds and leaves the available and the used set with
\* the members they had before the check-in, whatever the pool held.
C11_RoundTrip ==
    snap.ticketId # 0 =>
        /\ snap.checkIn = 200 /\ snap.checkOut = 200
        /\ snap.after = snap.before

\* C11 witness: the pair ran on a pool that had a slot held and a slot free
C11_Witness ==
    /\ snap.ticketId # 0
    /\ snap.checkOut = 200
    /\ snap.before.used # {}
    /\ snap.before.available # {}
    /\ lastResp = [kind |-> "check-out", ticketId |-> snap.ticketId, status |-> 200]

(***************************************************************************)
(* Time.  Redis removes a key when its expiry is reached.                  *)
(***************************************************************************)
Purge(d, t) == [k \in {x \in DOMAIN d : d[x].exp = 0 \/ d[x].exp > t} |-> d[k]]

hourlyKey == <<"events_created_this_hour">>
rateKey(ip) == <<"ratelimit", "events", ip>>
activeEventsKey == <<"active_events">>
nameKey(slug) == <<"event", slug, "name">>

Tick ==
    /\ now + TickSeconds <= MaxTicks * TickSeconds
    /\ now' = now + TickSeconds
    /\ db' = Purge(db, now')
    /\ admitted' = [ip \in Ips |-> IF Exists(db', rateKey(ip)) THEN admitted[ip] ELSE 0]
    /\ UNCHANGED <<reqs, lastResp, issued, poolSchema, takeLog, availBefore, lastCall,
                   creq, lastCreate, snap, build, staff, chal>>

(***************************************************************************)
(* POST /api/events, one action per await.  The security challenge is      *)
(* taken as passed and the form fields as valid.                           *)
(***************************************************************************)
\* slugs generateEventSlug may draw
Candidates == {"ev1", "ev2"}

\* the candidates of up to MaxAttempts draws: k times one slug, then another
CandidateRuns ==
    { [i \in 1..MaxAttempts |-> IF i <= k THEN a ELSE b] :
          a \in Candidates, b \in Candidates, k \in {1, MaxAttempts} }

\* event-manager.js holds two bodies of createEvent: the one that marks the
\* event with the key event:{slug}:active, and the one that enters the slug
\* in the set active_events, which POST /api/events counts
Builds == {"marker", "registry"}

createEventRegistry(d, slug, eventData) ==
    LET ttlSeconds == eventData.durationHours * 60 * 60
        d1 == HSet(d, metaKey(slug),
                   [name |-> eventData.eventName,
                    locationSchema |-> eventData.locationSchema,
                    createdAt |-> ISOString(now),
                    expiresAt |-> ISOString(now + eventData.durationHours * 60 * 60),
                    durationHours |-> eventData.durationHours])
        d2 == Expire(d1, metaKey(slug), ttlSeconds)
        d3 == Set(d2, counterKey(slug), 0)
        d4 == Expire(d3, counterKey(slug), ttlSeconds)
        d5 == SAdd(d4, activeEventsKey, slug)
        d6 == Expire(d5, activeEventsKey, ttlSeconds)
    IN  [db |-> d6,
         event |-> [slug |-> slug, locationSchema |-> eventData.locationSchema,
                    ttlSeconds |-> ttlSeconds]]

RECURSIVE DrawSlug(_, _, _)
\* do { slug = generateEventSlug(); attempts++; if (!exists) break; }
\* while (attempts < 10): the slug and the attempts the loop ends with
DrawSlug(d, run, attempts) ==
    LET slug == run[attempts + 1]
    IN  IF ~Exists(d, nameKey(slug)) THEN [slug |-> slug, attempts |-> attempts + 1]
        ELSE IF attempts + 1 < MaxAttempts THEN DrawSlug(d, run, attempts + 1)
        ELSE [slug |-> slug, attempts |-> attempts + 1]

\* count <= MAX_EVENTS_PER_IP_PER_HOUR + 1
Allowed_OffByOne(count) == count <= MAX_EVENTS_PER_IP_PER_HOUR + 1

\* what checkRateLimit returns
Allowed(count) == count <= MAX_EVENTS_PER_IP_PER_HOUR

OtherVars == <<now, reqs, lastResp, issued, poolSchema, takeLog, availBefore, lastCall, snap,
               build, staff, chal>>

RespondCreate(w, status, slug) ==
    /\ creq' = [creq EXCEPT ![w] = NoCreate]
    /\ lastCreate' = [ip |-> creq[w].ip, status |-> status, slug |-> slug]

\* requests that have not reached the global counter yet
CreatesAhead == Cardinality({w \in Workers : creq[w].pc = "cr_hourly"})

CreateBegin(w, ip) ==
    /\ creq[w].pc = "idle"
    /\ Get(db, hourlyKey) + CreatesAhead < MaxCreates
    /\ IF SCard(db, activeEventsKey) >= MAX_ACTIVE_EVENTS
       THEN /\ creq' = creq
            /\ lastCreate' = [ip |-> ip, status |-> 503, slug |-> ""]
       ELSE /\ creq' = [creq EXCEPT ![w] = [pc |-> "cr_hourly", ip |-> ip, count |-> 0]]
            /\ UNCHANGED lastCreate
    /\ UNCHANGED <<db, admitted, OtherVars>>

CreateHourlyIncr(w) ==
    /\ creq[w].pc = "cr_hourly"
    /\ db' = Incr(db, hourlyKey)
    /\ LET hourlyCount == Get(db', hourlyKey)
       IN  IF hourlyCount = 1
           THEN /\ creq' = [creq EXCEPT ![w].pc = "cr_hourlyExpire", ![w].count = hourlyCount]
                /\ UNCHANGED lastCreate
           ELSE IF hourlyCount > MAX_EVENTS_PER_HOUR_GLOBAL
           THEN RespondCreate(w, 503, "")
           ELSE /\ creq' = [creq EXCEPT ![w].pc = "cr_rate"]
                /\ UNCHANGED lastCreate
    /\ UNCHANGED <<admitted, OtherVars>>

CreateHourlyExpire(w) ==
    /\ creq[w].pc = "cr_hourlyExpire"
    /\ db' = Expire(db, hourlyKey, RateWindow)
    /\ IF creq[w].count > MAX_EVENTS_PER_HOUR_GLOBAL
       THEN RespondCreate(w, 503, "")
       ELSE /\ creq' = [creq EXCEPT ![w].pc = "cr_rate"]
            /\ UNCHANGED lastCreate
    /\ UNCHANGED <<admitted, OtherVars>>

\* checkRateLimit: redis.incr
CreateRateIncr(w) ==
    /\ creq[w].pc = "cr_rate"
    /\ db' = Incr(db, rateKey(creq[w].ip))
    /\ LET count == Get(db', rateKey(creq[w].ip))
       IN  /\ admitted' = [admitted EXCEPT ![creq[w].ip] =
                               IF Allowed(count) THEN @ + 1 ELSE @]
           /\ IF count = 1
              THEN /\ creq' = [creq EXCEPT ![w].pc = "cr_rateExpire", ![w].count = count]
                   /\ UNCHANGED lastCreate
              ELSE IF ~Allowed(count)
              THEN RespondCreate(w, 429, "")
              ELSE /\ creq' = [creq EXCEPT ![w].pc = "cr_create"]
                   /\ UNCHANGED lastCreate
    /\ UNCHANGED OtherVars

\* checkRateLimit: redis.expire
CreateRateExpire(w) ==
    /\ creq[w].pc = "cr_rateExpire"
    /\ db' = Expire(db, rateKey(creq[w].ip), RateWindow)
    /\ IF ~Allowed(creq[w].count)
       THEN RespondCreate(w, 429, "")
       ELSE /\ creq' = [creq EXCEPT ![w].pc = "cr_create"]
            /\ UNCHANGED lastCreate
    /\ UNCHANGED <<admitted, OtherVars>>

\* validation, buildLocationSchema, createEvent, initializeLocations, redirect
CreateEventAndPool(w, run, staffToken, rackStart, rackEnd, spotStartNum, spotEndNum, hours) ==
    LET totalLocations == (CharCodeAt0(rackEnd) - CharCodeAt0(rackStart) + 1)
                              * (spotEndNum - spotStartNum + 1)
        drawn == DrawSlug(db, run, 0)
    IN  /\ creq[w].pc = "cr_create"
        /\ CharCodeAt0(rackStart) <= CharCodeAt0(rackEnd)
        /\ ~(spotStartNum > spotEndNum \/ spotStartNum < 1)
        /\ ~(hours < 1 \/ hours > 48)
        /\ totalLocations <= 10000
        /\ totalLocations <= MaxEventSlots
        /\ IF drawn.attempts >= MaxAttempts
           THEN /\ RespondCreate(w, 500, "")
                /\ UNCHANGED db
           ELSE LET locationSchema == buildLocationSchema(rackStart, rackEnd,
                                                          spotStartNum, spotEndNum)
                    eventData == [eventName |-> <<>>, locationSchema |-> locationSchema,
                                  durationHours |-> hours]
                    c == IF build = "registry"
                         THEN createEventRegistry(db, drawn.slug, eventData)
                         ELSE createEvent(db, drawn.slug, staffToken, eventData)
                IN  /\ db' = initializeLocations(c.db, c.event.slug, c.event.locationSchema,
                                                 c.event.ttlSeconds)
                    /\ RespondCreate(w, 302, c.event.slug)
        /\ UNCHANGED <<admitted, OtherVars>>

\* the form asks for one rack with one spot, for one hour
QuotaHandle(w) ==
    \/ \E ip \in Ips : CreateBegin(w, ip)
    \/ CreateHourlyIncr(w)
    \/ CreateHourlyExpire(w)
    \/ CreateRateIncr(w)
    \/ CreateRateExpire(w)
    \/ \E run \in CandidateRuns, staffToken \in StaffTokens :
           CreateEventAndPool(w, run, staffToken, <<Letters[1]>>, <<Letters[1]>>, 1, 1, 1)

QuotaNext == Tick \/ \E w \in Workers : QuotaHandle(w)

InitQuota ==
    /\ db = <<>>
    /\ now = 0
    /\ poolSchema = <<>>
    /\ takeLog = <<>>
    /\ availBefore = 0
    /\ lastCall = NoCall
    /\ reqs = [w \in Workers |-> Idle]
    /\ lastResp = NoResp
    /\ issued = EmptyBag
    /\ creq = [w \in Workers |-> NoCreate]
    /\ lastCreate = NoCreateResp
    /\ admitted = [ip \in Ips |-> 0]
    /\ snap = NoSnap
    /\ build \in Builds
    /\ staff = NoStaff
    /\ chal = NoChal

\* concurrent creation requests of several addresses, and the clock, under
\* either body of createEvent
SpecQuota == InitQuota /\ [][QuotaNext]_vars

(***************************************************************************)
(* Claims about event creation.                                            *)
(***************************************************************************)
LiveEvents == { slug \in Candidates : Exists(db, metaKey(slug)) }

\* C12: the number of live events never exceeds MAX_ACTIVE_EVENTS.
C12_ActiveEventCeiling == Cardinality(LiveEvents) <= MAX_ACTIVE_EVENTS

\* the step of worker w ends its creation request with a refusal for quota
QuotaRefusal(w) ==
    /\ \/ \E ip \in Ips : CreateBegin(w, ip) /\ lastCreate' # lastCreate
       \/ CreateHourlyIncr(w)
       \/ CreateHourlyExpire(w)
       \/ CreateRateIncr(w)
       \/ CreateRateExpire(w)
    /\ creq'[w].pc = "idle"
    /\ lastCreate'.status \in {429, 503}

\* C13: the step on which a creation request is refused for a quota writes
\* nothing: every key has the value it had, the two counters included.
C13_RefusalHasNoEffect == [][\A w \in Workers : QuotaRefusal(w) => db' = db]_vars

\* C15: in one life of an address's rate-limit key checkRateLimit lets at most
\* MAX_EVENTS_PER_IP_PER_HOUR requests of that address through, it refuses a
\* request only for the count of the request's own address, and a request
\* leaves the key and the count of every other address as they were.
C15_PerSourceLimit ==
    /\ [](\A ip \in Ips : admitted[ip] <= MAX_EVENTS_PER_IP_PER_HOUR)
    /\ [][\A w \in Workers :
             (CreateRateIncr(w) \/ CreateRateExpire(w)) =>
                 /\ lastCreate'.status = 429 /\ lastCreate' # lastCreate =>
                        Get(db', rateKey(creq[w].ip)) > MAX_EVENTS_PER_IP_PER_HOUR
                 /\ \A ip \in Ips \ {creq[w].ip} :
                        /\ admitted'[ip] = admitted[ip]
                        /\ Exists(db', rateKey(ip)) = Exists(db, rateKey(ip))
                        /\ Get(db', rateKey(ip)) = Get(db, rateKey(ip))]_vars

\* C15 witness: one address is at its ceiling and was just refused, while the
\* other address has been let through in the life of its own key
C15_Witness ==
    /\ lastCreate = [ip |-> "ip1", status |-> 429, slug |-> ""]
    /\ admitted["ip1"] = MAX_EVENTS_PER_IP_PER_HOUR
    /\ Get(db, rateKey("ip1")) > MAX_EVENTS_PER_IP_PER_HOUR
    /\ admitted["ip2"] >= 1

\* C16: createEvent never writes under the identifier of a live event: the
\* metadata and the counter of a live event are not overwritten.
C16_SlugUnique ==
    [][\A w \in Workers : \A slug \in Candidates :
          (creq[w].pc = "cr_create" /\ creq'[w].pc = "idle" /\ Exists(db, metaKey(slug))) =>
              /\ lastCreate'.slug # slug
              /\ db'[metaKey(slug)] = db[metaKey(slug)]
              /\ Get(db', counterKey(slug)) = Get(db, counterKey(slug))]_vars

(***************************************************************************)
(* Issuing alone: concurrent GET /e/:slug/new requests, as many as come.   *)
(***************************************************************************)
Issue(w) ==
    \/ IssueBegin(w, TheSlug)
    \/ IssueGetCounter(w)
    \/ IssueIncr(w)
    \/ IssueTtl(w)
    \/ IssueExpireCounter(w)
    \/ \E token \in Tokens : IssueHSet(w, token)
    \/ IssueExpireTicket(w)

IssueNext == Create \/ \E w \in Workers : Issue(w)

SpecIssue == Init /\ [][IssueNext]_vars

EventKeys(d, slug) == { k \in DOMAIN d : Len(k) >= 2 /\ k[1] = "event" /\ k[2] = slug }

Elapse ==
    /\ now + StepSeconds <= MaxSteps * StepSeconds
    /\ now' = now + StepSeconds
    /\ db' = Purge(db, now')
    /\ UNCHANGED <<reqs, lastResp, issued, PoolVars>>

\* the event is created at the start; generateEventSlug draws a slug that no
\* event has had
CreateOnce == EventKeys(db, TheSlug) = {} /\ now = 0 /\ Create

LifeNext == CreateOnce \/ Handle("w1") \/ Elapse

SpecLife == Init /\ [][LifeNext]_vars

\* C17: once the event's metadata key has expired every key under the event's
\* identifier goes too: with no request in flight, each key that is left
\* carries an expiry.
C17_KeysExpireWithEvent ==
    (Quiescent /\ ~Exists(db, metaKey(TheSlug))) =>
        \A k \in EventKeys(db, TheSlug) : db[k].exp # 0

\* C18: whenever the available set or the occupied set of an event exists it
\* carries an expiry.
C18_PoolKeysExpire ==
    \A k \in {availableKey(TheSlug), usedKey(TheSlug)} :
        Exists(db, k) => db[k].exp # 0

\* C19: with no request in flight, a ticket record that exists has an expiry,
\* and it is not later than the expiry of the event's metadata; the counter
\* carries an expiry too.
C19_TicketTtlTracksEvent ==
    Quiescent =>
        /\ \A ticketId \in TicketIds :
               Exists(db, ticketKey(TheSlug, ticketId)) =>
                   /\ db[ticketKey(TheSlug, ticketId)].exp # 0
                   /\ Exists(db, metaKey(TheSlug))
                   /\ db[ticketKey(TheSlug, ticketId)].exp <= db[metaKey(TheSlug)].exp
        /\ Exists(db, counterKey(TheSlug)) => db[counterKey(TheSlug)].exp # 0

(***************************************************************************)
(* extendEvent, which event-manager.js exports and no route calls; its     *)
(* awaits are taken in one step.  It runs beside the creation of the event,*)
(* the issuing of tickets and the clock.                                   *)
(***************************************************************************)
extendEvent(d, slug, additionalHours) ==
    LET additionalSeconds == additionalHours * 60 * 60
        keys == EventKeys(d, slug)
    IN  [k \in DOMAIN d |->
            IF k \in keys /\ Ttl(d, k) > 0
            THEN [d[k] EXCEPT !.exp = now + (Ttl(d, k) + additionalSeconds)]
            ELSE d[k]]

ExtendEvent(slug, additionalHours) ==
    /\ ~IsNull(getEvent(db, slug))
    /\ db[metaKey(slug)].exp + additionalHours * 60 * 60 <= MaxLifetime * 60 * 60
    /\ db' = extendEvent(db, slug, additionalHours)
    /\ UNCHANGED <<now, reqs, lastResp, issued, PoolVars>>

ExtendNext ==
    \/ CreateOnce
    \/ Issue("w1")
    \/ Elapse
    \/ \E slug \in Slugs, additionalHours \in Hours : ExtendEvent(slug, additionalHours)

SpecExtend == Init /\ [][ExtendNext]_vars

\* C20: the expiry of a live event is the one its creation set, its creation
\* time plus its duration, which is also the expiresAt it stores: no step
\* changes the expiry of the metadata key or the stored expiresAt.
C20_ExpiryImmutable ==
    [][\A slug \in Slugs :
          (Exists(db, metaKey(slug)) /\ Exists(db', metaKey(slug))) =>
              /\ db'[metaKey(slug)].exp = db[metaKey(slug)].exp
              /\ db'[metaKey(slug)].v.expiresAt = db[metaKey(slug)].v.expiresAt
              /\ db'[metaKey(slug)].v.expiresAt = ISOString(db'[metaKey(slug)].exp)]_vars

(***************************************************************************)
(* Claims about getEvent.                                                  *)
(***************************************************************************)
\* C21: for an identifier whose event has expired getEvent returns null, the
\* result it returns for an identifier that was never created (the result in
\* the empty store, and the result for the slug ev2 no event is given here),
\* whatever keys the expired event has left in the store.
C21_AbsentOrExpired ==
    \A slug \in Candidates :
        ~Exists(db, metaKey(slug)) =>
            /\ IsNull(getEvent(db, slug))
            /\ getEvent(db, slug) = getEvent(<<>>, slug)
            /\ getEvent(db, slug) = getEvent(db, "ev2")

\* C21 witness: the event has expired and has left keys behind, and a request
\* for it was answered 404 on getEvent's result
C21_Witness ==
    /\ now >= 3600
    /\ ~Exists(db, metaKey(TheSlug))
    /\ EventKeys(db, TheSlug) # {}
    /\ lastResp = [kind |-> "issue", ticketId |-> 0, status |-> 404]

(***************************************************************************)
(* Staff authentication by token and the ticket page, with two events.     *)
(* Every request runs from its first line to its response.                 *)
(***************************************************************************)
\* staff tokens generateStaffToken may draw, and tokens of tickets
StaffSecrets == {"staffA", "staffB"}
GuestTokens == {"tokA", "tokB"}

\* requireStaffAuth that takes any token that is present
requireStaffAuth_NoCompare(d, slug, staffToken) ==
    IF staffToken = "" THEN 401
    ELSE IF IsNull(getEvent(d, slug)) THEN 404
    ELSE 0

\* requireStaffAuth that takes the staff token of any live event
requireStaffAuth_AnyEvent(d, slug, staffToken) ==
    IF staffToken = "" THEN 401
    ELSE IF IsNull(getEvent(d, slug)) THEN 404
    ELSE IF \A other \in Candidates :
                IsNull(getEvent(d, other)) \/ staffToken # getEvent(d, other).staffToken
         THEN 401
    ELSE 0

\* the middleware of the staff endpoints; the result next() is written 0
requireStaffAuth(d, slug, staffToken) ==
    IF staffToken = "" THEN 401
    ELSE LET event == getEvent(d, slug)
         IN  IF IsNull(event) THEN 404
             ELSE IF staffToken # event.staffToken THEN 401
             ELSE 0

\* GET /e/:slug/api/status/:id, after the middleware
ticketStatus(d, slug, ticketId) ==
    IF ticketId < 1 THEN [status |-> 404, body |-> ""]
    ELSE LET ticket == getTicket(d, slug, ticketId)
         IN  IF IsNull(ticket) THEN [status |-> 404, body |-> ""]
             ELSE IF ticket.location # <<>> THEN [status |-> 200, body |-> "checked_in"]
             ELSE IF ticket.checkedOutAt # <<>> THEN [status |-> 200, body |-> "checked_out"]
             ELSE [status |-> 200, body |-> "new"]

\* GET /e/:slug/new
newTicket(d, slug, token) ==
    IF IsNull(getEvent(d, slug)) THEN [db |-> d, status |-> 404, ticketId |-> 0]
    ELSE LET currentCount == Get(d, counterKey(slug))
         IN  IF currentCount # 0 /\ currentCount >= MAX_TICKETS_PER_EVENT
             THEN [db |-> d, status |-> 503, ticketId |-> 0]
             ELSE LET d1 == Incr(d, counterKey(slug))
                      ticketId == Get(d1, counterKey(slug))
                      ttl == Ttl(d1, metaKey(slug))
                      d2 == IF ttl > 0 THEN Expire(d1, counterKey(slug), ttl) ELSE d1
                  IN  [db |-> saveTicket(d2, slug, ticketId,
                                   [token |-> token, createdAt |-> ISOString(now)], ttl),
                       status |-> 302, ticketId |-> ticketId]

\* the ticket page that renders the guest's ticket without the token test
viewTicket_NoTokenTest(d, slug, ticketId, providedToken, staffToken) ==
    LET event == getEvent(d, slug)
    IN  IF IsNull(event) THEN [status |-> 404, view |-> "", token |-> ""]
        ELSE LET isStaff == staffToken # "" /\ staffToken = event.staffToken
                 ticket == getTicket(d, slug, ticketId)
             IN  IF ticketId < 1 THEN [status |-> 404, view |-> "", token |-> ""]
                 ELSE IF IsNull(ticket) THEN [status |-> 404, view |-> "", token |-> ""]
                 ELSE IF isStaff THEN [status |-> 200, view |-> "staff-ticket", token |-> ""]
                 ELSE [status |-> 200, view |-> "guest-ticket", token |-> ticket.token]

\* GET /e/:slug/ticket/:id: the page rendered, and the ticket token in it
viewTicket(d, slug, ticketId, providedToken, staffToken) ==
    LET event == getEvent(d, slug)
    IN  IF IsNull(event) THEN [status |-> 404, view |-> "", token |-> ""]
        ELSE LET isStaff == staffToken # "" /\ staffToken = event.staffToken
                 ticket == getTicket(d, slug, ticketId)
             IN  IF ticketId < 1 THEN [status |-> 404, view |-> "", token |-> ""]
                 ELSE IF IsNull(ticket) THEN [status |-> 404, view |-> "", token |-> ""]
                 ELSE IF isStaff THEN [status |-> 200, view |-> "staff-ticket", token |-> ""]
                 ELSE IF providedToken = "" \/ providedToken # ticket.token
                 THEN [status |-> 200, view |-> "staff-access-required", token |-> ""]
                 ELSE [status |-> 200, view |-> "guest-ticket", token |-> ticket.token]

StaffVars == <<now, poolSchema, takeLog, availBefore, lastCall, reqs, lastResp, issued,
               creq, lastCreate, admitted, snap, build, chal>>

\* POST /api/events for one rack of one spot and one hour; the slug and the
\* staff token drawn are ones no event has had
StaffCreate(slug, staffToken) ==
    /\ IsNull(getEvent(db, slug))
    /\ EventKeys(db, slug) = {}
    /\ \A other \in Candidates :
           ~IsNull(getEvent(db, other)) => getEvent(db, other).staffToken # staffToken
    /\ LET locationSchema == buildLocationSchema(<<Letters[1]>>, <<Letters[1]>>, 1, 1)
           c == createEvent(db, slug, staffToken,
                            [eventName |-> <<>>, locationSchema |-> locationSchema,
                             durationHours |-> 1])
       IN  db' = initializeLocations(c.db, c.event.slug, c.event.locationSchema,
                                     c.event.ttlSeconds)
    /\ staff' = [NoStaff EXCEPT !.endpoint = "create", !.slug = slug, !.status = 200,
                                !.ran = TRUE]
    /\ UNCHANGED StaffVars

\* GET /e/:slug/new; generateSecureToken draws a token no ticket of the event has
StaffIssue(slug, token) ==
    /\ Get(db, counterKey(slug)) < MaxIssue
    /\ \A ticketId \in TicketIds :
           ~IsNull(getTicket(db, slug, ticketId)) => getTicket(db, slug, ticketId).token # token
    /\ LET r == newTicket(db, slug, token)
       IN  /\ db' = r.db
           /\ staff' = [NoStaff EXCEPT !.endpoint = "new", !.slug = slug,
                                       !.status = r.status, !.ran = TRUE]
    /\ UNCHANGED StaffVars

StaffEndpoints == {"status", "check-in", "check-out", "capacity"}

\* a request of a staff endpoint: the middleware, then the handler;
\* staffToken is req.body.staffToken || req.query.staffToken
StaffRequest(endpoint, slug, staffToken, ticketId, pick) ==
    LET auth == requireStaffAuth(db, slug, staffToken)
        r == IF auth # 0 THEN [db |-> db, status |-> auth]
             ELSE IF endpoint = "status"
             THEN [db |-> db, status |-> ticketStatus(db, slug, ticketId).status]
             ELSE IF endpoint = "check-in" THEN checkIn(db, slug, ticketId, pick)
             ELSE IF endpoint = "check-out" THEN checkOut(db, slug, ticketId)
             ELSE [db |-> db, status |-> 200]
    IN  /\ pick \in SPopChoices(db, slug)
        /\ db' = r.db
        /\ staff' = [NoStaff EXCEPT !.endpoint = endpoint, !.slug = slug,
                                    !.staffToken = staffToken, !.status = r.status,
                                    !.ran = (auth = 0)]
        /\ UNCHANGED StaffVars

ViewTicket(slug, ticketId, providedToken, staffToken) ==
    LET r == viewTicket(db, slug, ticketId, providedToken, staffToken)
    IN  /\ staff' = [NoStaff EXCEPT !.endpoint = "ticket", !.slug = slug,
                                    !.staffToken = staffToken, !.status = r.status,
                                    !.view = r.view, !.token = r.token, !.ran = TRUE,
                                    !.ticketId = ticketId, !.providedToken = providedToken]
        /\ UNCHANGED <<db, StaffVars>>

\* the token generateStaffToken draws for the event of each slug
DrawnSecret == [slug \in Candidates |-> IF slug = "ev1" THEN "staffA" ELSE "staffB"]

\* the token generateSecureToken draws for the n-th ticket of an event
DrawnToken(n) == IF n = 1 THEN "tokA" ELSE "tokB"

StaffNext ==
    \/ \E slug \in Candidates : StaffCreate(slug, DrawnSecret[slug])
    \/ \E slug \in Candidates : StaffIssue(slug, DrawnToken(Get(db, counterKey(slug)) + 1))
    \/ \E endpoint \in StaffEndpoints, slug \in Candidates,
          staffToken \in StaffSecrets \cup {""}, ticketId \in TicketIds :
           \E pick \in SPopChoices(db, slug) :
               StaffRequest(endpoint, slug, staffToken, ticketId, pick)

\* events, their tickets and the requests of the staff endpoints
SpecStaff == Init /\ [][StaffNext]_vars

TicketPageNext ==
    \/ \E slug \in Candidates : StaffCreate(slug, DrawnSecret[slug])
    \/ \E slug \in Candidates : StaffIssue(slug, DrawnToken(Get(db, counterKey(slug)) + 1))
    \/ \E slug \in Candidates, ticketId \in TicketIds,
          providedToken \in GuestTokens \cup {""}, staffToken \in StaffSecrets \cup {""} :
           ViewTicket(slug, ticketId, providedToken, staffToken)

\* events, their tickets and the requests of the ticket page
SpecTicketPage == Init /\ [][TicketPageNext]_vars

\* the event of the slug is live and its staff token is staffToken
IsStaffOf(d, slug, staffToken) ==
    /\ staffToken # ""
    /\ ~IsNull(getEvent(d, slug))
    /\ staffToken = getEvent(d, slug).staffToken

\* C22: a request of a staff endpoint runs its handler only if its staffToken
\* is the one the event stores; with no token it is answered 401, for an event
\* that does not exist 404, with another token 401, and then the store is
\* left as it was.
C22_StaffAuth ==
    [][staff'.endpoint \in StaffEndpoints =>
          /\ staff'.ran = IsStaffOf(db, staff'.slug, staff'.staffToken)
          /\ ~IsStaffOf(db, staff'.slug, staff'.staffToken) =>
                 /\ db' = db
                 /\ staff'.status = IF staff'.staffToken = "" THEN 401
                                    ELSE IF IsNull(getEvent(db, staff'.slug)) THEN 404
                                    ELSE 401]_vars

\* C22 witness: a check-in of a ticket that could be checked in was refused
\* for the token, which is not the event's
C22_Witness ==
    /\ staff = [NoStaff EXCEPT !.endpoint = "check-in", !.slug = "ev1",
                               !.staffToken = "staffB", !.status = 401]
    /\ IsStaffOf(db, "ev1", "staffA")
    /\ ~IsNull(getTicket(db, "ev1", 1))
    /\ getTicket(db, "ev1", 1).status = "new"
    /\ SCard(db, availableKey("ev1")) > 0

\* C23: the staff token of one live event is answered 401 on the staff
\* endpoints of another live event, and an issue, check-in, check-out, status
\* or capacity request addressed to one event leaves every key of every other
\* event as it was.
C23_EventIsolation ==
    [][\A other \in Candidates \ {staff'.slug} :
          /\ (/\ staff'.endpoint \in StaffEndpoints
              /\ ~IsNull(getEvent(db, staff'.slug))
              /\ IsStaffOf(db, other, staff'.staffToken)) =>
                 staff'.status = 401 /\ ~staff'.ran /\ db' = db
          /\ staff'.endpoint \in StaffEndpoints \cup {"new"} =>
                 /\ EventKeys(db', other) = EventKeys(db, other)
                 /\ \A k \in EventKeys(db, other) : db'[k] = db[k]]_vars

\* C23 witness: the token of ev1 was just refused on the check-out of a ticket
\* of ev2 that holds a slot
C23_Witness ==
    /\ staff = [NoStaff EXCEPT !.endpoint = "check-out", !.slug = "ev2",
                               !.staffToken = "staffA", !.status = 401]
    /\ IsStaffOf(db, "ev1", "staffA")
    /\ IsStaffOf(db, "ev2", "staffB")
    /\ ~IsNull(getTicket(db, "ev2", 1))
    /\ getTicket(db, "ev2", 1).location # <<>>
    /\ ~IsNull(getTicket(db, "ev1", 1))

\* the token the request supplied is the one stored for the ticket it names
TokenMatches(d, r) ==
    /\ ~IsNull(getEvent(d, r.slug))
    /\ ~IsNull(getTicket(d, r.slug, r.ticketId))
    /\ r.providedToken # ""
    /\ r.providedToken = getTicket(d, r.slug, r.ticketId).token

\* C24: the ticket page shows a request without the event's staff token the
\* guest's ticket, with its token, only if the token it supplies is the one
\* stored for that ticket; with no token, a wrong one or no such ticket, no
\* ticket and no token is shown.
C24_GuestTicketAccess ==
    [][staff'.endpoint = "ticket" =>
          /\ (staff'.view = "guest-ticket" \/ staff'.token # "") => TokenMatches(db, staff')
          /\ (TokenMatches(db, staff') /\ ~IsStaffOf(db, staff'.slug, staff'.staffToken)) =>
                 /\ staff'.view = "guest-ticket"
                 /\ staff'.token = getTicket(db, staff'.slug, staff'.ticketId).token]_vars

\* C24 witness: a guest was shown ticket 2 on its token, while ticket 1 of the
\* event has another token
C24_Witness ==
    /\ staff = [NoStaff EXCEPT !.endpoint = "ticket", !.slug = "ev1", !.status = 200,
                               !.ran = TRUE, !.view = "guest-ticket", !.token = "tokB",
                               !.ticketId = 2, !.providedToken = "tokB"]
    /\ getTicket(db, "ev1", 1).token = "tokA"
    /\ getTicket(db, "ev1", 2).token = "tokB"

(***************************************************************************)
(* The challenge of the event form: illusion-challenge.js                  *)
(***************************************************************************)

\* setEx(key, 300, ...): the lifetime of a stored challenge, seconds
ChallengeTtl == 300
\* age > 300000: the oldest challenge that verifies, in seconds
MaxChallengeAge == 300
\* expire(key, 3600): the lifetime of the request counter of an address
ChallengeWindow == 3600
\* count <= 20
MaxChallengeRequests == 20

ChalSeconds == 150
MaxChalSteps == 3
\* the calls of one address that the model follows within one window
MaxCalls == 22

\* the options of the form; the stored answer is one of them
Answers == {"A", "a", "B"}

\* String.prototype.toUpperCase on the letters used
toUpperCase(ch) == IF ch = "a" THEN "A" ELSE IF ch = "b" THEN "B" ELSE ch

illusionKey(challengeId) == <<"illusion_challenge", challengeId>>
illusionRequestsKey(ip) == <<"illusion_challenge_requests", ip>>

ChalOther == <<poolSchema, takeLog, availBefore, lastCall, reqs, lastResp, issued,
               creq, lastCreate, admitted, snap, build, staff>>

\* generateIllusionChallenge and storeIllusionChallenge; the id is drawn from
\* 16 random bytes and names one challenge only
StoreChallenge(challengeId, answer) ==
    /\ ~chal.stored[challengeId]
    /\ db' = Put(db, illusionKey(challengeId),
                 [v |-> [answer |-> answer, timestamp |-> now], exp |-> now + ChallengeTtl])
    /\ chal' = [chal EXCEPT !.stored[challengeId] = TRUE]
    /\ UNCHANGED <<now, ChalOther>>

\* verifyIllusionChallenge: await redis.get(key)
VerifyGet(w, challengeId, userAnswer) ==
    /\ chal.vreq[w].pc = "idle"
    /\ chal' = [chal EXCEPT !.vreq[w] =
                    [pc |-> "got", challengeId |-> challengeId, userAnswer |-> userAnswer,
                     data |-> IF Exists(db, illusionKey(challengeId))
                              THEN <<db[illusionKey(challengeId)].v>> ELSE <<>>]]
    /\ UNCHANGED <<db, now, ChalOther>>

\* the verification that deletes the challenge on a wrong answer too
verifyResult_DelOnWrong(data, userAnswer, t) ==
    IF data = <<>> THEN [valid |-> FALSE, error |-> "Challenge expired or invalid", del |-> FALSE]
    ELSE IF toUpperCase(data[1].answer) # toUpperCase(userAnswer)
    THEN [valid |-> FALSE, error |-> "Incorrect answer", del |-> TRUE]
    ELSE IF t - data[1].timestamp > MaxChallengeAge
    THEN [valid |-> FALSE, error |-> "Challenge expired", del |-> TRUE]
    ELSE [valid |-> TRUE, error |-> "", del |-> TRUE]

\* the verification without the test of the age
verifyResult_NoAgeTest(data, userAnswer, t) ==
    IF data = <<>> THEN [valid |-> FALSE, error |-> "Challenge expired or invalid", del |-> FALSE]
    ELSE IF toUpperCase(data[1].answer) # toUpperCase(userAnswer)
    THEN [valid |-> FALSE, error |-> "Incorrect answer", del |-> FALSE]
    ELSE [valid |-> TRUE, error |-> "", del |-> TRUE]

\* verifyIllusionChallenge after the get: the answer, and whether the key is deleted
verifyResult(data, userAnswer, t) ==
    IF data = <<>> THEN [valid |-> FALSE, error |-> "Challenge expired or invalid", del |-> FALSE]
    ELSE IF toUpperCase(data[1].answer) # toUpperCase(userAnswer)
    THEN [valid |-> FALSE, error |-> "Incorrect answer", del |-> FALSE]
    ELSE IF t - data[1].timestamp > MaxChallengeAge
    THEN [valid |-> FALSE, error |-> "Challenge expired", del |-> TRUE]
    ELSE [valid |-> TRUE, error |-> "", del |-> TRUE]

\* verifyIllusionChallenge: the tests, await redis.del(key), the result
VerifyFinish(w) ==
    /\ chal.vreq[w].pc = "got"
    /\ LET q == chal.vreq[w]
           r == verifyResult(q.data, q.userAnswer, now)
       IN  /\ db' = IF r.del THEN Del(db, illusionKey(q.challengeId)) ELSE db
           /\ chal' = [chal EXCEPT !.vreq[w] = NoVerify,
                                   !.valid[q.challengeId] = IF r.valid THEN @ + 1 ELSE @,
                                   !.failed[q.challengeId] =
                                       @ \/ r.error = "Incorrect answer",
                                   !.last = [valid |-> r.valid, error |-> r.error]]
    /\ UNCHANGED <<now, ChalOther>>

ChalElapse ==
    /\ now + ChalSeconds <= MaxChalSteps * ChalSeconds
    /\ now' = now + ChalSeconds
    /\ db' = Purge(db, now')
    /\ UNCHANGED <<chal, ChalOther>>

ChalNext ==
    \/ \E challengeId \in ChallengeIds, answer \in {"A"} : StoreChallenge(challengeId, answer)
    \/ \E w \in Workers, challengeId \in ChallengeIds, userAnswer \in Answers :
           VerifyGet(w, challengeId, userAnswer)
    \/ \E w \in Workers : VerifyFinish(w)
    \/ ChalElapse

SpecChallenge == Init /\ [][ChalNext]_vars

\* C25: of the verifications of one stored challenge at most one is answered
\* valid, also when two verifications with the right answer run together.
C25_OneTimeUse == \A challengeId \in ChallengeIds : chal.valid[challengeId] <= 1

\* the test of checkIllusionChallengeRateLimit with < for <=
ChallengeAllowed_OffByOne(count) == count < MaxChallengeRequests

\* checkIllusionChallengeRateLimit: return count <= 20
ChallengeAllowed(count) == count <= MaxChallengeRequests

\* the result of the call of worker w, counted as allowed or as blocked within
\* the lifetime of the counter, which starts with the call that creates the key
RateRespond(w, ip, count) ==
    chal' = [chal EXCEPT !.rreq[w] = NoRate,
                         !.allowed[ip] = @ + (IF ChallengeAllowed(count) THEN 1 ELSE 0),
                         !.blocked[ip] = @ + (IF ChallengeAllowed(count) THEN 0 ELSE 1)]

\* checkIllusionChallengeRateLimit: await redis.incr(key)
RateIncr(w, ip) ==
    /\ chal.rreq[w].pc = "idle"
    /\ Get(db, illusionRequestsKey(ip)) < MaxCalls
    /\ db' = Incr(db, illusionRequestsKey(ip))
    /\ LET count == Get(db', illusionRequestsKey(ip))
       IN  IF count = 1
           THEN chal' = [chal EXCEPT !.rreq[w] = [pc |-> "expire", ip |-> ip, count |-> count],
                                     !.allowed[ip] = 0, !.blocked[ip] = 0]
           ELSE RateRespond(w, ip, count)
    /\ UNCHANGED <<now, ChalOther>>

\* checkIllusionChallengeRateLimit that returns without its redis.expire
RateExpire_NoExpire(w) ==
    /\ chal.rreq[w].pc = "expire"
    /\ db' = db
    /\ RateRespond(w, chal.rreq[w].ip, chal.rreq[w].count)
    /\ UNCHANGED <<now, ChalOther>>

\* checkIllusionChallengeRateLimit: await redis.expire(key, 3600)
RateExpire(w) ==
    /\ chal.rreq[w].pc = "expire"
    /\ db' = Expire(db, illusionRequestsKey(chal.rreq[w].ip), ChallengeWindow)
    /\ RateRespond(w, chal.rreq[w].ip, chal.rreq[w].count)
    /\ UNCHANGED <<now, ChalOther>>

RateElapse ==
    /\ now + StepSeconds <= MaxSteps * StepSeconds
    /\ now' = now + StepSeconds
    /\ db' = Purge(db, now')
    /\ UNCHANGED <<chal, ChalOther>>

RateNext ==
    \/ \E w \in Workers, ip \in Ips : RateIncr(w, ip)
    \/ \E w \in Workers : RateExpire(w)
    \/ RateElapse

SpecChallengeRate == Init /\ [][RateNext]_vars

\* the calls of the address that have not returned yet: the first of a
\* lifetime of its counter, between the incr and the expire
CallsPending(ip) ==
    Cardinality({w \in Workers : chal.rreq[w].pc = "expire" /\ chal.rreq[w].ip = ip})

\* C26: within the lifetime of the counter of an address the first 20 calls
\* of checkIllusionChallengeRateLimit are allowed and every further one is
\* blocked, whatever the calls of the other address.
C26_RateLimit ==
    \A ip \in Ips :
        Exists(db, illusionRequestsKey(ip)) =>
            LET calls == Get(db, illusionRequestsKey(ip))
            IN  /\ chal.allowed[ip] + CallsPending(ip) = IF calls <= 20 THEN calls ELSE 20
                /\ chal.blocked[ip] = IF calls <= 20 THEN 0 ELSE calls - 20

\* C26 witness: ip1 is blocked after its 20 calls while ip2, in a later window
\* of its own, is allowed
C26_Witness ==
    /\ chal.allowed["ip1"] = 20
    /\ chal.blocked["ip1"] = 2
    /\ chal.allowed["ip2"] = 3
    /\ chal.blocked["ip2"] = 0
    /\ Exists(db, illusionRequestsKey("ip1"))
    /\ Exists(db, illusionRequestsKey("ip2"))
    /\ db[illusionRequestsKey("ip1")].exp < db[illusionRequestsKey("ip2")].exp

(***************************************************************************)
(* parseLocationSchema on its own.                                         *)
(***************************************************************************)
ParseMaxSpot == 11

\* the descriptor 'R1-R2:P1-P2' of the ranks Alphabet[r1]..Alphabet[r2] and
\* the positions p1..p2
Descriptor(r1, r2, p1, p2) ==
    <<Alphabet[r1], "-", Alphabet[r2], ":">> \o NumToString(p1) \o <<"-">> \o NumToString(p2)

ParseVars == <<db, now, availBefore, reqs, lastResp, issued, AuxVars>>

\* a descriptor with R1 <= R2 and 1 <= P1 <= P2 is handed to the location manager
ParseDraw(r1, r2, p1, p2) ==
    /\ r1 <= r2 /\ p1 <= p2
    /\ poolSchema' = Descriptor(r1, r2, p1, p2)
    /\ takeLog' = <<>>
    /\ lastCall' = [op |-> "schema", arg |-> <<r1, r2, p1, p2>>, location |-> <<>>, ok |-> TRUE]
    /\ UNCHANGED ParseVars

\* const locations = parseLocationSchema(schema)
Parse ==
    /\ lastCall.op = "schema"
    /\ takeLog' = parseLocationSchema(poolSchema)
    /\ lastCall' = [lastCall EXCEPT !.op = "parse"]
    /\ UNCHANGED <<poolSchema, ParseVars>>

ParseNext ==
    \/ \E r1 \in 1..Len(Alphabet), r2 \in 1..Len(Alphabet),
          p1 \in 1..ParseMaxSpot, p2 \in 1..ParseMaxSpot : ParseDraw(r1, r2, p1, p2)
    \/ Parse

SpecParse == Init /\ [][ParseNext]_vars

\* C27: for 'R1-R2:P1-P2' with R1 <= R2 and 1 <= P1 <= P2 parseLocationSchema
\* returns the (R2-R1+1)*(P2-P1+1) locations '{rank}-{position}', rank by
\* rank and within a rank position by position, each once; 'A-C:1-3' gives
\* A-1, A-2, A-3, B-1, ..., C-3.
C27_Expansion ==
    lastCall.op = "parse" =>
        LET r1 == lastCall.arg[1]
            r2 == lastCall.arg[2]
            p1 == lastCall.arg[3]
            p2 == lastCall.arg[4]
            width == p2 - p1 + 1
        IN  /\ Len(takeLog) = (r2 - r1 + 1) * width
            /\ \A i \in 1..Len(takeLog) :
                   takeLog[i] = <<Alphabet[r1 + ((i - 1) \div width)], "-">>
                                    \o NumToString(p1 + ((i - 1) % width))
            /\ \A i, j \in 1..Len(takeLog) : takeLog[i] = takeLog[j] => i = j
            /\ poolSchema = <<"A", "-", "C", ":", "1", "-", "3">> =>
                   takeLog = << <<"A", "-", "1">>, <<"A", "-", "2">>, <<"A", "-", "3">>,
                                <<"B", "-", "1">>, <<"B", "-", "2">>, <<"B", "-", "3">>,
                                <<"C", "-", "1">>, <<"C", "-", "2">>, <<"C", "-", "3">> >>

\* C27 witness: 'B-C:9-11' has been expanded into six locations
C27_Witness ==
    /\ lastCall.op = "parse"
    /\ poolSchema = <<"B", "-", "C", ":", "9", "-", "1", "1">>
    /\ Len(takeLog) = 6
    /\ takeLog[4] = <<"C", "-", "9">>

\* C28: initializeLocations called again for an event whose pool is
\* initialized, whatever has been taken or returned since and also when no
\* slot is left, leaves the available set, the occupied set and the expiry of
\* both as they were.
C28_InitializeIdempotent ==
    [][(lastCall'.op = "init" /\ poolSchema # <<>>) =>
          \A k \in {availableKey(TheSlug), usedKey(TheSlug)} :
              /\ Exists(db', k) = Exists(db, k)
              /\ Exists(db, k) => db'[k] = db[k]]_vars

\* C29: getTicket reports checked_out when the record has a check-out time,
\* else checked_in when it has a location, else new; and a ticket reported
\* checked_out holds no slot, while one reported checked_in holds a slot that
\* is in the occupied set (stated between requests, when no handler is half
\* way through its writes).
C29_DerivedState ==
    \A t \in TicketIds :
        (~IsNull(Ticket(db, t)) /\ \A w \in Workers : reqs[w] = Idle) =>
            LET data == HGetAll(db, ticketKey(TheSlug, t))
                ticket == Ticket(db, t)
            IN  /\ ticket.status = "checked_out" <=> Field(data, "checkedOutAt") # <<>>
                /\ ticket.status = "checked_in" <=>
                       (Field(data, "checkedOutAt") = <<>> /\ Field(data, "location") # <<>>)
                /\ ticket.status \in {"checked_out", "checked_in", "new"}
                /\ ticket.status = "checked_out" => ticket.location = <<>>
                /\ ticket.status = "checked_in" =>
                       ticket.location # <<>> /\ ticket.location \in Used(TheSlug)

(***************************************************************************)
(* The ceiling on the size of a pool.                                      *)
(***************************************************************************)
\* if (totalLocations > 10000), scaled down
MaxLocations == 4

\* POST /api/events from its validation on, with the count it validates kept
\* in availBefore; a request that fails the validation is answered 400
CeilingCreate(rackStart, rackEnd, spotStartNum, spotEndNum) ==
    LET totalLocations == (CharCodeAt0(rackEnd) - CharCodeAt0(rackStart) + 1)
                              * (spotEndNum - spotStartNum + 1)
        valid == /\ CharCodeAt0(rackStart) <= CharCodeAt0(rackEnd)
                 /\ ~(spotStartNum > spotEndNum \/ spotStartNum < 1)
                 /\ ~(totalLocations > MaxLocations)
        locationSchema == buildLocationSchema(rackStart, rackEnd, spotStartNum, spotEndNum)
        c == createEvent(db, TheSlug, "staffA",
                         [eventName |-> <<>>, locationSchema |-> locationSchema,
                          durationHours |-> 1])
    IN  /\ poolSchema = <<>>
        /\ ~Exists(db, metaKey(TheSlug))
        /\ IF valid
           THEN /\ db' = initializeLocations(c.db, c.event.slug, c.event.locationSchema,
                                             c.event.ttlSeconds)
                /\ poolSchema' = locationSchema
                /\ availBefore' = totalLocations
                /\ lastCall' = [op |-> "create", arg |-> locationSchema, location |-> <<>>,
                                ok |-> TRUE]
           ELSE /\ lastCall' = [op |-> "create", arg |-> locationSchema, location |-> <<>>,
                                ok |-> FALSE]
                /\ UNCHANGED <<db, poolSchema, availBefore>>
        /\ takeLog' = <<>>
        /\ UNCHANGED <<now, reqs, lastResp, issued, AuxVars>>

\* initializeLocations called with a descriptor of its caller's choice
CeilingInitialize(r1, r2, p1, p2) ==
    /\ r1 <= r2 /\ p1 <= p2
    /\ PoolFirstInitialize(Descriptor(r1, r2, p1, p2), 1)

CeilingNext ==
    \/ \E rackStart \in Range(Alphabet), rackEnd \in Range(Alphabet),
          spotStartNum \in 0..MaxSpot, spotEndNum \in 1..MaxSpot :
           CeilingCreate(<<rackStart>>, <<rackEnd>>, spotStartNum, spotEndNum)
    \/ \E r1 \in 1..Len(Alphabet), r2 \in 1..Len(Alphabet),
          p1 \in 1..MaxSpot, p2 \in 1..MaxSpot : CeilingInitialize(r1, r2, p1, p2)
    \/ \E pick \in SPopChoices(db, TheSlug) : PoolTake(pick)
    \/ \E location \in PoolLocations : PoolReturn(location)

SpecCeiling == Init /\ [][CeilingNext]_vars

\* C30: no pool of more slots than the ceiling is ever built, whether
\* initializeLocations is reached through the validation of POST /api/events
\* or called with a descriptor directly, and the count the validation tests
\* is the number of locations parseLocationSchema expands.
C30_PoolCeiling ==
    /\ SCard(db, availableKey(TheSlug)) + SCard(db, usedKey(TheSlug)) <= MaxLocations
    /\ poolSchema # <<>> => Len(parseLocationSchema(poolSchema)) <= MaxLocations
    /\ (lastCall.op = "create" /\ lastCall.ok) =>
           availBefore = Len(parseLocationSchema(lastCall.arg))

(***************************************************************************)
(* Further claims about the challenge.                                     *)
(***************************************************************************)
\* worker w returns from verifyIllusionChallenge in this step
Returns(w) == chal.vreq[w].pc = "got" /\ chal'.vreq[w].pc = "idle"

\* the answer the verification of q supplies is the stored one, as the code compares them
AnswerMatches(q) ==
    q.data # <<>> /\ toUpperCase(q.data[1].answer) = toUpperCase(q.userAnswer)

\* C31: a verification refused for its answer leaves the stored challenge as
\* it was, and a verification with the right answer that returns while the
\* challenge is still stored is answered valid.
C31_WrongAnswerKeeps ==
    [][\A w \in Workers :
          Returns(w) =>
              LET q == chal.vreq[w]
              IN  /\ (q.data # <<>> /\ ~AnswerMatches(q)) =>
                         /\ db' = db
                         /\ chal'.last = [valid |-> FALSE, error |-> "Incorrect answer"]
                  /\ (AnswerMatches(q) /\ Exists(db, illusionKey(q.challengeId))) =>
                         chal'.last.valid]_vars

\* C31 witness: the challenge was first refused for a wrong answer and has
\* now been answered valid, once
C31_Witness ==
    /\ chal.failed["ch1"]
    /\ chal.valid["ch1"] = 1
    /\ chal.last.valid
    /\ \A w \in Workers : chal.vreq[w].pc = "idle"

\* C32: a verification is never answered valid when it found no key or when
\* the challenge is older than 5 minutes, whatever the answer; one with the
\* right answer for a challenge older than that is refused as expired and
\* the key is deleted.
C32_Expiry ==
    [][\A w \in Workers :
          Returns(w) =>
              LET q == chal.vreq[w]
              IN  /\ (q.data = <<>> \/ now - q.data[1].timestamp > 300) =>
                         ~chal'.last.valid /\ chal'.valid = chal.valid
                  /\ (AnswerMatches(q) /\ now - q.data[1].timestamp > 300) =>
                         /\ chal'.last = [valid |-> FALSE, error |-> "Challenge expired"]
                         /\ ~Exists(db', illusionKey(q.challengeId))]_vars

\* C32 witness: a verification with the right answer has been refused as expired
C32_Witness ==
    /\ chal.last = [valid |-> FALSE, error |-> "Challenge expired"]
    /\ chal.stored["ch1"]
    /\ chal.valid["ch1"] = 0
    /\ now > 300

(***************************************************************************)
(* The slug loop of createEvent on its own.  No code of the repository     *)
(* writes event:{slug}:name, so the store is given such keys here for the  *)
(* existence check to find.                                                *)
(***************************************************************************)
\* the candidates generateEventSlug returns: k times one slug, then another
DrawRuns ==
    { [i \in 1..MaxAttempts |-> IF i <= k THEN a ELSE b] :
          a \in Candidates, b \in Candidates, k \in 0..MaxAttempts }

DrawVars == <<now, poolSchema, takeLog, availBefore, lastCall, reqs, lastResp, issued,
              creq, admitted, build, staff, chal>>

\* a key event:{slug}:name is in the store
NameTaken(slug) ==
    /\ ~Exists(db, nameKey(slug))
    /\ db' = Set(db, nameKey(slug), "1")
    /\ snap' = NoSnap
    /\ lastCreate' = NoCreateResp
    /\ UNCHANGED DrawVars

\* createEvent(eventData) with the candidates of run; the error it throws is
\* answered 500 by POST /api/events
DrawCreate(run, hours) ==
    LET drawn == DrawSlug(db, run, 0)
        threw == drawn.attempts >= MaxAttempts
        c == createEvent(db, drawn.slug, "staffA",
                         [eventName |-> <<>>,
                          locationSchema |-> buildLocationSchema(<<"A">>, <<"A">>, 1, 1),
                          durationHours |-> hours])
    IN  /\ db' = IF threw THEN db ELSE c.db
        /\ snap' = [op |-> "createEvent", run |-> run, attempts |-> drawn.attempts,
                    threw |-> threw, slug |-> IF threw THEN "" ELSE drawn.slug,
                    wrote |-> db' # db]
        /\ lastCreate' = [ip |-> "", status |-> IF threw THEN 500 ELSE 302,
                          slug |-> IF threw THEN "" ELSE drawn.slug]
        /\ UNCHANGED DrawVars

DrawNext ==
    \/ \E slug \in Candidates : NameTaken(slug)
    \/ \E run \in DrawRuns, hours \in 1..MaxLifetime : DrawCreate(run, hours)

SpecDraw == Init /\ [][DrawNext]_vars

\* the first candidate of the run that the existence check reports unused, or 0
FirstUnused(run) ==
    IF \A i \in 1..MaxAttempts : Exists(db, nameKey(run[i])) THEN 0
    ELSE CHOOSE i \in 1..MaxAttempts :
             /\ ~Exists(db, nameKey(run[i]))
             /\ \A j \in 1..(i - 1) : Exists(db, nameKey(run[j]))

Stored(d, t) == HGetAll(d, ticketKey(TheSlug, t))

\* worker w writes the record of ticket t in this step, from pc to the next
Writes(w, t, pc, next) ==
    reqs[w].pc = pc /\ reqs'[w].pc = next /\ reqs[w].ticketId = t

\* C34: the token and the creation time of a ticket never change once it is
\* issued; the write of a check-in changes the location and the check-in
\* time only, and the write of a check-out empties the location and sets the
\* check-out time only, the check-in time staying as it is.
C34_FieldPreservation ==
    [][\A t \in TicketIds :
          (~IsNull(Stored(db, t)) /\ ~IsNull(Stored(db', t))) =>
              LET a == Stored(db, t)
                  b == Stored(db', t)
              IN  /\ b.token = a.token
                  /\ b.createdAt = a.createdAt
                  /\ \A w \in Workers :
                         /\ Writes(w, t, "ci_hset", "ci_expire") =>
                                /\ Field(b, "location") = reqs[w].location
                                /\ Field(b, "checkedInAt") = ISOString(now)
                                /\ Field(b, "checkedOutAt") = Field(a, "checkedOutAt")
                                /\ DOMAIN b = DOMAIN a \cup {"location", "checkedInAt"}
                         /\ Writes(w, t, "co_hset", "co_expire") =>
                                /\ Field(b, "location") = <<>>
                                /\ Field(b, "checkedOutAt") = ISOString(now)
                                /\ Field(b, "checkedInAt") = Field(a, "checkedInAt")
                                /\ DOMAIN b = DOMAIN a \cup {"checkedOutAt"}]_vars

(***************************************************************************)
(* The capacity statistics of the location manager.                        *)
(***************************************************************************)
\* getCapacityStats is called for the event, before or after its pool exists
PoolStats ==
    /\ snap' = getCapacityStats(db, TheSlug)
    /\ lastCall' = [op |-> "stats", arg |-> <<>>, location |-> <<>>, ok |-> TRUE]
    /\ UNCHANGED <<db, now, poolSchema, takeLog, availBefore, reqs, lastResp, issued,
                   creq, lastCreate, admitted, build, staff, chal>>

StatsNext == PoolReinitNext \/ PoolStats

\* the location manager with its statistics, initializeLocations callable again
SpecStats == Init /\ [][StatsNext]_vars

\* C35: getCapacityStats writes nothing and returns the size of the available
\* set, the size of the occupied set, their sum as the total and a percentage
\* that is 0 for a total of 0 and used / total * 100 (to one decimal)
\* otherwise; and once the pool is initialized the total is the number of
\* slots the schema expands to.
C35_PoolStats ==
    [][lastCall'.op = "stats" =>
          /\ db' = db
          /\ snap'.available = Cardinality(Available(TheSlug))
          /\ snap'.used = Cardinality(Used(TheSlug))
          /\ snap'.total = snap'.available + snap'.used
          /\ snap'.total = 0 => snap'.percentFull = 0
          /\ snap'.total > 0 =>
                 /\ 2 * (snap'.percentFull * snap'.total - 1000 * snap'.used) <= snap'.total
                 /\ 2 * (1000 * snap'.used - snap'.percentFull * snap'.total) < snap'.total
          /\ poolSchema # <<>> =>
                 snap'.total = Len(parseLocationSchema(poolSchema))]_vars

\* C35 without its last sentence: the values getCapacityStats returns
PoolStatsValues ==
    [][lastCall'.op = "stats" =>
          /\ db' = db
          /\ snap' = [available |-> Cardinality(Available(TheSlug)),
                      used |-> Cardinality(Used(TheSlug)),
                      total |-> Cardinality(Available(TheSlug)) + Cardinality(Used(TheSlug)),
                      percentFull |-> snap'.percentFull]
          /\ snap'.total = 0 => snap'.percentFull = 0
          /\ snap'.total > 0 =>
                 /\ 2 * (snap'.percentFull * snap'.total - 1000 * snap'.used) <= snap'.total
                 /\ 2 * (1000 * snap'.used - snap'.percentFull * snap'.total) < snap'.total]_vars

(***************************************************************************)
(* Claims about the slots held by tickets.                                 *)
(***************************************************************************)
\* the slots the ticket records name as held
HeldLocations == { HeldLocation(db, t) : t \in TicketIds } \ {<<>>}

\* C36: whenever no check-in or check-out is half way (every request has been
\* answered), the occupied set is the set of the slots named in the ticket
\* records, under any interleaving of check-ins and check-outs, several for
\* the same ticket included.
C36_NoLeakedSlot == Quiescent => Used(TheSlug) = HeldLocations

\* C37: for every stored ticket the status the staff status endpoint answers
\* (location first, then the check-out time) is the status getTicket derives
\* (check-out time first, then the location).
C37_StatusAgreement ==
    \A t \in TicketIds :
        ~IsNull(Ticket(db, t)) =>
            ticketStatus(db, TheSlug, t) = [status |-> 200, body |-> Ticket(db, t).status]

\* C38: the write of a check-out changes the ticket record only when the
\* returnLocation call of that check-out moved the slot from the occupied to
\* the available set; when returnLocation returned false the record stays as
\* it is.
C38_ReleaseOnlyReturned ==
    [][\A w \in Workers :
          (reqs[w].pc = "co_hset" /\ reqs'[w].pc = "co_expire" /\ ~reqs[w].returned) =>
              Stored(db', reqs[w].ticketId) = Stored(db, reqs[w].ticketId)]_vars

(***************************************************************************)
(* The registry of active events (the body of createEvent that enters the  *)
(* slug in the set active_events), with events of different durations.     *)
(***************************************************************************)
MaxRegistryHours == 2

\* getActiveEvents: the members of active_events
getActiveEvents(d) == SMembers(d, activeEventsKey)

\* createEvent for a slug no live event has, for a duration of hours
RegistryCreate(slug, hours) ==
    /\ ~Exists(db, metaKey(slug))
    /\ db' = createEventRegistry(db, slug,
                 [eventName |-> <<>>,
                  locationSchema |-> buildLocationSchema(<<"A">>, <<"A">>, 1, 1),
                  durationHours |-> hours]).db
    /\ snap' = [op |-> "create", slug |-> slug, hours |-> hours,
                active |-> getActiveEvents(db')]
    /\ UNCHANGED <<now, poolSchema, takeLog, availBefore, lastCall, reqs, lastResp, issued,
                   creq, lastCreate, admitted, build, staff, chal>>

\* the list of active events is asked for
RegistryList ==
    /\ snap' = [op |-> "list", slug |-> "", hours |-> 0, active |-> getActiveEvents(db)]
    /\ UNCHANGED <<db, now, poolSchema, takeLog, availBefore, lastCall, reqs, lastResp,
                   issued, creq, lastCreate, admitted, build, staff, chal>>

RegistryNext ==
    \/ \E slug \in Candidates, hours \in 1..MaxRegistryHours : RegistryCreate(slug, hours)
    \/ RegistryList
    \/ Elapse

InitRegistry == InitQuota /\ build = "registry"

SpecRegistry == InitRegistry /\ [][RegistryNext]_vars

\* C39: every event whose metadata key exists is a member of what
\* getActiveEvents returns and is counted by the SCARD of the quota check,
\* whatever the durations of the events created; the registry loses no event
\* before the event expires.
C39_RegistryComplete ==
    /\ LiveEvents \subseteq getActiveEvents(db)
    /\ SCard(db, activeEventsKey) >= Cardinality(LiveEvents)
    /\ ("active" \in DOMAIN snap /\ snap.op = "list") => LiveEvents \subseteq snap.active

(***************************************************************************)
(* The three counters with a window: the creation requests and the         *)
(* challenge requests run side by side, and the clock moves.               *)
(***************************************************************************)
MaxWindowCalls == 2

\* a challenge request of the address, up to MaxWindowCalls in one window
ChallengeRequest(w, ip) ==
    /\ Get(db, illusionRequestsKey(ip)) < MaxWindowCalls
    /\ RateIncr(w, ip)

\* a creation request; generateEventSlug draws the same slug at each attempt
CountersHandle(w) ==
    \/ \E ip \in Ips : CreateBegin(w, ip)
    \/ CreateHourlyIncr(w)
    \/ CreateHourlyExpire(w)
    \/ CreateRateIncr(w)
    \/ CreateRateExpire(w)
    \/ CreateEventAndPool(w, [i \in 1..MaxAttempts |-> TheSlug], "staffA",
                          <<Letters[1]>>, <<Letters[1]>>, 1, 1, 1)

CountersNext ==
    \/ Tick
    \/ \E w \in Workers : CountersHandle(w)
    \/ \E w \in Workers : ChallengeRequest(w, "ip1")
    \/ \E w \in Workers : RateExpire(w)

\* the body of createEvent that POST /api/events never finds in active_events,
\* so that no creation request is turned away before the counters
InitCounters == InitQuota /\ build = "marker"

SpecCounters == InitCounters /\ [][CountersNext]_vars

CounterKeys ==
    {hourlyKey} \cup { rateKey(ip) : ip \in Ips } \cup { illusionRequestsKey(ip) : ip \in Ips }

\* no request is between its INCR and its EXPIRE, or anywhere else half way
NoRequestInFlight ==
    \A w \in Workers : creq[w].pc = "idle" /\ chal.rreq[w].pc = "idle"

\* C40: between requests, each counter that exists (the one checkRateLimit
\* writes for an address, the global hourly one, the one of the challenge
\* requests of an address) has an expiry, at most one hour ahead, whatever
\* the interleaving of the requests and of the expiry of the keys.
C40_CountersExpire ==
    NoRequestInFlight =>
        \A k \in CounterKeys :
            Exists(db, k) => (db[k].exp # 0 /\ db[k].exp <= now + RateWindow)

\* C40 witness: after one window has gone the three counters exist again,
\* the challenge counter raised by two requests, and all requests are answered
C40_Witness ==
    /\ NoRequestInFlight
    /\ now = TickSeconds
    /\ Exists(db, hourlyKey)
    /\ Exists(db, rateKey("ip1"))
    /\ Exists(db, illusionRequestsKey("ip1"))
    /\ Get(db, illusionRequestsKey("ip1")) = MaxWindowCalls
    /\ db[illusionRequestsKey("ip1")].exp = now + ChallengeWindow

====
